---- MODULE Spec2Model ----
(***************************************************************************)
(* Notebook persistence and hot-exit recovery of NativeEditorStorage       *)
(* (src/src/client/datascience/interactive-ipynb/nativeEditorStorage.ts):  *)
(* the backup coordinator (backup / storeContentsInHotExitFile /           *)
(* writeToStorage), the storage tier resolver (getStoredContents...), the  *)
(* model loader (loadFromFile / loadContents) and save.                    *)
(*                                                                         *)
(* Every await of the source is a point where another handler may run, so  *)
(* a backup cycle and a save are split into one action per awaited I/O     *)
(* call; a load is one action.  Variables marked "history" are not state   *)
(* of the program: they record arguments and return values of calls so     *)
(* that properties about them can be stated.                               *)
(***************************************************************************)
EXTENDS Integers, Sequences, FiniteSets, TLC

(***************************************************************************)
(* Bounds of the model.                                                    *)
(***************************************************************************)
\* cells an editing session appends to a loaded notebook
MaxCells == 1
\* last value of the millisecond clock (Date.now(), file mtime)
MaxTime == 2
\* load calls in one behaviour of the loader specifications
MaxLoads == 2
\* getStoredContents calls in one behaviour of the tier specification
MaxQueries == 2
\* saved-as notifications in one behaviour of the save specification
MaxSavedAs == 2
\* kernel objects the kernel manager can hand out per language
MaxKernels == 2
\* onKernelChanged calls in one behaviour of the Jupyter specification
MaxChanges == 3
\* kernel start and restart promises pending at one time
MaxPending == 1

(***************************************************************************)
(* Document identities and storage keys.                                   *)
(***************************************************************************)
FileDocs == {"a", "b"}
UntitledDocs == {"u"}
Docs == FileDocs \cup UntitledDocs

\* Uri.scheme of a document identity
Scheme(file) == IF file \in UntitledDocs THEN "untitled" ELSE "file"

\* isUntitledFile (common/utils/misc): the scheme convention of the spec
IsUntitledFile(file) == Scheme(file) = "untitled"

KeyPrefix == "notebook-storage-"
NotebookTransferKey == "notebook-transfered"

\* An absent (undefined) or empty backup id: both are falsy in `backupId || ...`
NoId == <<>>
\* generateBackupId: `${basename}-${uuid}`; one id handed out for document "a"
GenerateBackupId(file) == <<file, "uuid">>
BackupIds == {GenerateBackupId("a")}

\* getStaticStorageKey: `${KeyPrefix}${file.toString()}`
GetStaticStorageKey(file) == <<KeyPrefix, file>>
Keys == {GetStaticStorageKey(d) : d \in Docs} \cup BackupIds

\* `backupId || this.getStaticStorageKey(file)`
StorageKey(file, backupId) ==
    IF backupId # NoId THEN backupId ELSE GetStaticStorageKey(file)

\* getHashedFileName: path.join(globalStoragePath, `${hash(key)}.ipynb`)
GetHashedFileName(key) == <<"globalStoragePath", "hash", key>>
HotExitPaths == {GetHashedFileName(k) : k \in Keys}

(***************************************************************************)
(* Texts: the strings the program reads and writes.  A text is a notebook  *)
(* document (JSON with a cells list), JSON without a cells key, something  *)
(* JSON.parse rejects, the empty string, or undefined.                     *)
(***************************************************************************)
\* ver: language_info.codemirror_mode.version when it is a number, else 0
NB(cells, ver) == [kind |-> "nb", cells |-> cells, ver |-> ver]
NoCellsText == [kind |-> "nocells", cells |-> <<>>, ver |-> 0]
GarbageText == [kind |-> "garbage", cells |-> <<>>, ver |-> 0]
EmptyText == [kind |-> "empty", cells |-> <<>>, ver |-> 0]
Undefined == [kind |-> "undefined", cells |-> <<>>, ver |-> 0]

\* The elements of a sequence
Range(seq) == {seq[i] : i \in 1..Len(seq)}

\* JavaScript truthiness of `string | undefined`
Truthy(text) == text.kind \notin {"empty", "undefined"}

(***************************************************************************)
(* Notebook models (INotebookModel, built by INotebookModelFactory).       *)
(***************************************************************************)
\* createCodeCell(): the data of an empty code cell
EmptyCodeCell == "emptyCode"
\* data of a cell typed by the user
UserCell == "userCode"

\* createEmptyCell that gives every synthesized cell one and the same identifier
CreateEmptyCell_SameId(id) ==
    [id |-> <<"uuid", 0>>, state |-> "finished", data |-> EmptyCodeCell]

\* createEmptyCell(id)
CreateEmptyCell(id) == [id |-> id, state |-> "finished", data |-> EmptyCodeCell]

\* factory.createModel(options)
CreateModel(trusted, file, cells, initiallyDirty, pythonNumber) ==
    [file |-> file, cells |-> cells, trusted |-> trusted,
     dirty |-> initiallyDirty, pythonNumber |-> pythonNumber]

NoModel == [file |-> "none", cells |-> <<>>, trusted |-> FALSE,
            dirty |-> FALSE, pythonNumber |-> 0]

\* model.getContent(): the cells serialized in the interchange format
GetContent(model) ==
    NB([i \in 1..Len(model.cells) |-> model.cells[i].data], 0)

(***************************************************************************)
(* Entries of the three storage tiers.                                     *)
(***************************************************************************)
\* tier 1, a file of the hot-exit store: JSON.stringify({contents, lastModifiedTimeMs})
Envelope(contents, time) ==
    [kind |-> "envelope", contents |-> contents, lastModifiedTimeMs |-> time]
\* no file / no entry under the key
Absent == [kind |-> "absent", contents |-> Undefined, lastModifiedTimeMs |-> 0]
\* a file whose text JSON.parse rejects
GarbageFile == [kind |-> "garbage", contents |-> Undefined, lastModifiedTimeMs |-> 0]
\* tier 2, oldest format: the value is a bare string
BareString(contents) ==
    [kind |-> "string", contents |-> contents, lastModifiedTimeMs |-> 0]

Tokens == {"t1", "t2"}
NoRequest == [model |-> "none", cancellation |-> "none"]
NoArgs == [backupId |-> NoId, contents |-> Undefined]

VARIABLES
    models,           \* the model of each open document (owned by its editor)
    backingUp,        \* NativeEditorStorage.backingUp
    backupRequested,  \* NativeEditorStorage.backupRequested
    inflight,         \* the storeContentsInHotExitFile calls that have not settled
    cancelled,        \* the cancellation tokens whose isCancellationRequested is true
    hotExit,          \* tier 1: the files under context.globalStoragePath
    globalStorage,    \* tier 2: the global memento
    localStorage,     \* tier 3: the workspace memento
    transferFlag,     \* globalStorage[NotebookTransferKey]
    fileContent,      \* the document files' text (Absent-like: Undefined)
    fileMtime,        \* the document files' modification time
    trustedSet,       \* the (identity, text) pairs the trust service trusts
    now,              \* the clock
    saving,           \* the save call in progress, if any
    lastSaved,        \* history: content of the last completed save, until an edit
    loadResult,       \* history: the last load call, its arguments and outcome
    nLoads,           \* history: load calls so far
    requestedArgs,    \* history: backup id and content of the queued request
    lastReq,          \* history: per document, its last backup request
    ioFailed,         \* history: an I/O call of a backup cycle has failed
    burst,            \* history: writes since the coordinator left Idle
    callResult,       \* history: completion of the most recent backup call
    queries,          \* the getStoredContents calls, each at its await point
    lastCall,         \* history: the last operation called on the storage tiers
    sweptEntries,     \* history: the global-store entries transferStorage removed
    lastTrustedSave,  \* history: identity and content of the last completed
                      \*          save or saveAs of a trusted model
    issuedIds,        \* history: the uuid() values handed to createEmptyCell
    saveHist,         \* history: completion of the last save or saveAs call, and
                      \*          the saved-as notifications fired so far
    tests,            \* TestResultsService: the nodes of the test tree
    testQueue,        \* updateResults: the queue of the first loop
    testStack,        \* updateResults: the stack of the second loop
    updating,         \* updateResults: its position (idle, queue, stack, done)
    updated,          \* history: the nodes updateTestItem was applied to, in order
    kernel,           \* Jupyter: this.kernel
    onKernalStatusChangeHandler,  \* Jupyter: the subscription it holds, if any
    subscriptions,    \* the live status-change subscriptions of all kernels
    runningKernels,   \* the kernel manager: the running kernel of each language
    pendingKernels,   \* kernels of settled start/restart promises, callback not yet run
    changes           \* history: the onKernelChanged calls so far

vars == <<models, backingUp, backupRequested, inflight, cancelled, hotExit,
          globalStorage, localStorage, transferFlag, fileContent, fileMtime,
          trustedSet, now, saving, lastSaved, loadResult, nLoads, requestedArgs,
          lastReq,
          ioFailed, burst, callResult, queries, lastCall, sweptEntries,
          lastTrustedSave,
          issuedIds, saveHist,
          tests, testQueue, testStack, updating, updated,
          kernel, onKernalStatusChangeHandler, subscriptions, runningKernels,
          pendingKernels, changes>>

coordVars == <<backingUp, backupRequested, inflight, requestedArgs, lastReq,
               ioFailed, burst, callResult>>
tierVars == <<hotExit, globalStorage, localStorage, transferFlag>>
diskVars == <<fileContent, fileMtime, trustedSet>>
loadVars == <<loadResult, nLoads>>
saveVars == <<saving, lastSaved>>
tierHist == <<queries, lastCall, sweptEntries>>
histVars == <<tierHist, lastTrustedSave, issuedIds, saveHist>>
storageVars == <<models, coordVars, cancelled, tierVars, diskVars, now, saveVars,
                 loadVars, histVars>>
unitTestVars == <<tests, testQueue, testStack, updating, updated>>
jupyterVars == <<kernel, onKernalStatusChangeHandler, subscriptions, runningKernels,
                 pendingKernels, changes>>
serviceVars == <<unitTestVars, jupyterVars>>


(***************************************************************************)
(* The state after construction, with every store empty.  The             *)
(* specifications below start from it or from a set of states around it.  *)
(***************************************************************************)
NoLastReq == [backupId |-> NoId, contents |-> Undefined, token |-> "none"]
NoBurst == [writes |-> 0, late |-> FALSE]
NoSave == [pc |-> "idle", model |-> "none", target |-> "none", contents |-> Undefined,
           written |-> FALSE, trusted |-> FALSE, isTrusted |-> FALSE]

\* The option slot of load: absent, a boolean skip flag, or a backup id string
OptUndefined == [type |-> "undefined", flag |-> FALSE, value |-> NoId]
OptBoolean(flag) == [type |-> "boolean", flag |-> flag, value |-> NoId]
OptString(value) == [type |-> "string", flag |-> FALSE, value |-> value]
Options == {OptUndefined, OptBoolean(TRUE), OptBoolean(FALSE), OptString(NoId)}
               \cup {OptString(id) : id \in BackupIds}

NoLoad == [status |-> "none", file |-> "none", options |-> OptUndefined,
           fail |-> "none", model |-> NoModel, saved |-> Undefined]

\* A document opened on a notebook without cells: one synthesized empty cell
OpenedModel(file) ==
    CreateModel(TRUE, file, <<CreateEmptyCell(<<"uuid", 0>>)>>, FALSE, 3)

InitCoordinator ==
    /\ backingUp = FALSE
    /\ backupRequested = NoRequest
    /\ inflight = {}
    /\ cancelled = {}
    /\ requestedArgs = NoArgs
    /\ lastReq = [d \in Docs |-> NoLastReq]
    /\ ioFailed = FALSE
    /\ burst = NoBurst
    /\ callResult = "none"

InitStores ==
    /\ hotExit = [p \in HotExitPaths |-> Absent]
    /\ globalStorage = [k \in Keys |-> Absent]
    /\ localStorage = [k \in Keys |-> Undefined]
    /\ transferFlag = FALSE

\* A getStoredContents call: its await point, the value each tier it has read
\* yielded (Unread for a tier it has not read), and the value it returned.
\* afterDelete is history: the call directly follows a deleteBackup of its key.
QueryIds == 1..MaxQueries
Unread == [kind |-> "unread", cells |-> <<>>, ver |-> 0]
NoQuery == [pc |-> "idle", file |-> "none", key |-> NoId, r1 |-> Unread, r2 |-> Unread,
            r3 |-> Unread, result |-> Undefined, afterDelete |-> FALSE]
\* The last operation on the tiers; again: it is a run of transferStorage and the
\* operation before it was one too
NoCall == [op |-> "none", key |-> NoId, ok |-> TRUE, again |-> FALSE, settled |-> "none"]
\* backup was the last operation called
BackupCall == [op |-> "backup", key |-> NoId, ok |-> TRUE, again |-> FALSE,
               settled |-> "pending"]
NoSaveHist == [result |-> "none", savedAs |-> <<>>]
NoTrustedSave == [file |-> "none", contents |-> Undefined]

(***************************************************************************)
(* TestResultsService: the test tree.  A node is a folder, a file, a suite *)
(* or a test function; passed is TRUE, FALSE or unset.                     *)
(***************************************************************************)
Unset == "undefined"

\* The values of the passed field: true, false, or not set
PassedValues == {"true", "false", Unset}

\* The nodes of the tree the specifications use, by type
TestFolders == {"root", "pkg", "emptyFolder"}
TestFiles == {"file1", "file2"}
TestSuites == {"suite1", "suite2"}
TestFunctions == {"fn1", "fn2", "fn3", "fn4"}
TestNodes == TestFolders \cup TestFiles \cup TestSuites \cup TestFunctions

\* tests.rootTestFolders
RootTestFolders == <<"root", "emptyFolder">>

\* getTestType(test)
GetTestType(item) ==
    IF item \in TestFolders THEN "testFolder"
    ELSE IF item \in TestFiles THEN "testFile"
    ELSE IF item \in TestSuites THEN "testSuite"
    ELSE "testFunction"

\* getChildren(item): the folders then the files of a folder, the functions
\* then the suites of a file or a suite, nothing for a test function
GetChildren(item) ==
    IF item = "root" THEN <<"pkg", "file1">>
    ELSE IF item = "pkg" THEN <<"file2">>
    ELSE IF item = "file1" THEN <<"fn1", "suite1">>
    ELSE IF item = "file2" THEN <<"fn4">>
    ELSE IF item = "suite1" THEN <<"fn2", "suite2">>
    ELSE IF item = "suite2" THEN <<"fn3">>
    ELSE <<>>

\* TestStatus of a test function with the given result
StatusOf(passed) ==
    IF passed = Unset THEN "Unknown" ELSE IF passed = "true" THEN "Pass" ELSE "Fail"

\* A node as a test run leaves it: a test function with its result, any other
\* node with the result and the counts an earlier run or update left in it
TestItem(passed, count) ==
    [passed |-> passed, status |-> StatusOf(passed),
     functionsPassed |-> count, functionsFailed |-> count,
     functionsDidNotRun |-> count]

\* The tree before any test has run
NoResults == [n \in TestNodes |-> TestItem(Unset, 0)]

InitUnitTests ==
    /\ tests = NoResults
    /\ testQueue = <<>>
    /\ testStack = <<>>
    /\ updating = "idle"
    /\ updated = <<>>

(***************************************************************************)
(* Jupyter: kernels and status-change subscriptions.                       *)
(***************************************************************************)
Languages == {"python", "r"}
NoKernel == [id |-> 0, language |-> "none"]
NoSubscription == [id |-> 0, kernel |-> NoKernel]

\* The kernel objects of the kernel manager
Kernels == {[id |-> i, language |-> l] : i \in 1..MaxKernels, l \in Languages}

InitJupyter ==
    /\ kernel = NoKernel
    /\ onKernalStatusChangeHandler = NoSubscription
    /\ subscriptions = {}
    /\ runningKernels = [l \in Languages |-> NoKernel]
    /\ pendingKernels = {}
    /\ changes = <<>>

\* The storage at construction, with every store empty and no call made
InitHist ==
    /\ queries = [q \in QueryIds |-> NoQuery]
    /\ lastCall = NoCall
    /\ sweptEntries = {}
    /\ lastTrustedSave = NoTrustedSave
    /\ issuedIds = {}
    /\ saveHist = NoSaveHist

InitLoader ==
    /\ saving = NoSave
    /\ lastSaved = Undefined
    /\ loadResult = NoLoad
    /\ nLoads = 0
    /\ InitHist
    /\ InitUnitTests
    /\ InitJupyter

Init ==
    /\ InitCoordinator
    /\ InitStores
    /\ InitLoader
    /\ models = [d \in Docs |-> IF d \in FileDocs THEN OpenedModel(d) ELSE NoModel]
    /\ fileContent = [d \in Docs |-> IF d \in FileDocs THEN NB(<<>>, 0) ELSE Undefined]
    /\ fileMtime = [d \in Docs |-> 0]
    /\ trustedSet = {}
    /\ now = 1

(***************************************************************************)
(* The editor and the clock.                                               *)
(***************************************************************************)
\* The user types a cell into an open notebook: the model's content changes
Edit(d) ==
    /\ models[d] # NoModel
    /\ Len(models[d].cells) < 1 + MaxCells
    /\ models' = [models EXCEPT ![d] =
           [@ EXCEPT !.cells = Append(@, [id |-> <<"cell", Len(@)>>,
                                          state |-> "finished",
                                          data |-> UserCell]),
                     !.dirty = TRUE]]
    /\ lastSaved' = Undefined
    /\ UNCHANGED <<coordVars, cancelled, tierVars, diskVars, now, saving, loadVars, histVars,
                   serviceVars>>

\* Time passes
Tick ==
    /\ now < MaxTime
    /\ now' = now + 1
    /\ UNCHANGED <<models, coordVars, cancelled, tierVars, diskVars, saveVars, loadVars, histVars,
                   serviceVars>>

\* The host cancels a token
Cancel(tok) ==
    /\ tok \notin cancelled
    /\ \/ backupRequested.cancellation = tok
       \/ \E c \in inflight : c.token = tok
    /\ cancelled' = cancelled \cup {tok}
    /\ UNCHANGED <<models, coordVars, tierVars, diskVars, now, saveVars, loadVars, histVars,
                   serviceVars>>

(***************************************************************************)
(* The backup coordinator.                                                 *)
(***************************************************************************)
\* deleteFile whose not-found error is not caught
DeleteFileOutcome_NotFoundRejects(present, ok) ==
    [removed |-> present /\ ok, logged |-> ~ok,
     settled |-> IF present \/ ~ok THEN "resolved" ELSE "rejected"]

\* fileSystem.deleteFile(filePath).catch(...): the file is removed when it is
\* there and the file system does not fail; a missing file gives a not-found
\* error, which is dropped; any other error is logged; the call resolves
DeleteFileOutcome(present, ok) ==
    [removed |-> present /\ ok, logged |-> ~ok, settled |-> "resolved"]

\* writeToStorage that does not look at the token before its first I/O call
WriteToStorageStart_IgnoreToken(contents, isCancellationRequested) ==
    IF contents # Absent THEN "createDirectory" ELSE "deleteFile"

\* writeToStorage up to its first await: which I/O call it starts, if any
WriteToStorageStart(contents, isCancellationRequested) ==
    IF isCancellationRequested THEN "done"
    ELSE IF contents # Absent THEN "createDirectory"
    ELSE "deleteFile"

\* storeContentsInHotExitFile up to the first await of writeToStorage.
\* followUp, namedId and reqContents are history: whether the finally callback
\* started the call, and the backup id and content of the request it serves.
\* ops, cancelledAt and before are history too: the I/O calls made so far, the
\* test of the token that found it cancelled, and the hot-exit file at the start.
StoreContentsInHotExitFile(model, cancelToken, backupId, followUp, namedId, reqContents) ==
    LET contents == GetContent(models[model])
        key == StorageKey(model, backupId)
        specialContents == IF Truthy(contents) THEN Envelope(contents, now) ELSE Absent
        start == WriteToStorageStart(specialContents, cancelToken \in cancelled)
    IN  [model |-> model, token |-> cancelToken, key |-> key,
         filePath |-> GetHashedFileName(key),
         contents |-> specialContents,
         pc |-> start,
         followUp |-> followUp, namedId |-> namedId, reqContents |-> reqContents,
         ops |-> IF start = "done" THEN {} ELSE {start},
         cancelledAt |-> IF cancelToken \in cancelled THEN "start" ELSE "none",
         before |-> hotExit[GetHashedFileName(key)]]

\* backup without the test of backingUp: every call starts a write cycle
Backup_NoGuard(d, tok, id) ==
    /\ models[d] # NoModel
    /\ backingUp' = TRUE
    /\ inflight' = inflight \cup
           {StoreContentsInHotExitFile(d, tok, id, FALSE, id, GetContent(models[d]))}
    /\ callResult' = "pending"
    /\ burst' = NoBurst
    /\ lastReq' = [lastReq EXCEPT ![d] =
           [backupId |-> id, contents |-> GetContent(models[d]), token |-> tok]]
    /\ lastCall' = BackupCall
    /\ UNCHANGED <<backupRequested, requestedArgs, models, cancelled, tierVars,
                   diskVars, now, saveVars, loadVars, queries, sweptEntries,
                   lastTrustedSave, issuedIds, saveHist, ioFailed, serviceVars>>

\* backup that keeps the request already queued instead of replacing it
Backup_KeepFirstPending(d, tok, id) ==
    /\ models[d] # NoModel
    /\ IF backingUp
       THEN /\ IF backupRequested = NoRequest
               THEN /\ backupRequested' = [model |-> d, cancellation |-> tok]
                    /\ requestedArgs' =
                           [backupId |-> id, contents |-> GetContent(models[d])]
               ELSE UNCHANGED <<backupRequested, requestedArgs>>
            /\ callResult' = "resolved"
            /\ burst' = IF \E c \in inflight : c.followUp
                        THEN [burst EXCEPT !.late = TRUE] ELSE burst
            /\ UNCHANGED <<backingUp, inflight>>
       ELSE /\ backingUp' = TRUE
            /\ inflight' = inflight \cup
                   {StoreContentsInHotExitFile(d, tok, id, FALSE, id, GetContent(models[d]))}
            /\ callResult' = "pending"
            /\ burst' = NoBurst
            /\ UNCHANGED <<backupRequested, requestedArgs>>
    /\ lastReq' = [lastReq EXCEPT ![d] =
           [backupId |-> id, contents |-> GetContent(models[d]), token |-> tok]]
    /\ lastCall' = BackupCall
    /\ UNCHANGED <<models, cancelled, tierVars, diskVars, now, saveVars, loadVars,
                   queries, sweptEntries, lastTrustedSave, issuedIds, saveHist,
                   ioFailed, serviceVars>>

\* backup(model, cancellation, backupId), called by the host
Backup(d, tok, id) ==
    /\ models[d] # NoModel
    /\ IF backingUp
       THEN /\ backupRequested' = [model |-> d, cancellation |-> tok]
            /\ requestedArgs' = [backupId |-> id, contents |-> GetContent(models[d])]
            /\ callResult' = "resolved"
            /\ burst' = IF \E c \in inflight : c.followUp
                        THEN [burst EXCEPT !.late = TRUE] ELSE burst
            /\ UNCHANGED <<backingUp, inflight>>
       ELSE /\ backingUp' = TRUE
            /\ inflight' = inflight \cup
                   {StoreContentsInHotExitFile(d, tok, id, FALSE, id, GetContent(models[d]))}
            /\ callResult' = "pending"
            /\ burst' = NoBurst
            /\ UNCHANGED <<backupRequested, requestedArgs>>
    /\ lastReq' = [lastReq EXCEPT ![d] =
           [backupId |-> id, contents |-> GetContent(models[d]), token |-> tok]]
    /\ lastCall' = BackupCall
    /\ UNCHANGED <<models, cancelled, tierVars, diskVars, now, saveVars, loadVars,
                   queries, sweptEntries, lastTrustedSave, issuedIds, saveHist,
                   ioFailed, serviceVars>>

\* The cycle goes on to its next I/O call, or is done
SetCycle(c, pc, cancelledAt) ==
    inflight' = (inflight \ {c}) \cup
        {[c EXCEPT !.pc = pc,
                   !.ops = IF pc = "done" THEN @ ELSE @ \cup {pc},
                   !.cancelledAt = cancelledAt]}

\* writeToStorage: createDirectory settles; the token is checked again
CreateDirectoryDone(c, ok) ==
    /\ c \in inflight /\ c.pc = "createDirectory"
    /\ SetCycle(c, IF ok /\ c.token \notin cancelled THEN "writeFile" ELSE "done",
                   IF ok /\ c.token \in cancelled THEN "write" ELSE c.cancelledAt)
    /\ ioFailed' = (ioFailed \/ ~ok)
    /\ UNCHANGED <<models, backingUp, backupRequested, requestedArgs, lastReq, burst,
                   callResult, cancelled, tierVars, diskVars, now, saveVars, loadVars, histVars,
                   serviceVars>>

\* writeToStorage: writeFile settles; a failure is caught and logged
WriteFileDone(c, ok) ==
    /\ c \in inflight /\ c.pc = "writeFile"
    /\ SetCycle(c, "done", c.cancelledAt)
    /\ hotExit' = IF ok THEN [hotExit EXCEPT ![c.filePath] = c.contents] ELSE hotExit
    /\ burst' = IF ok /\ ~burst.late /\ burst.writes < 3
                THEN [burst EXCEPT !.writes = @ + 1] ELSE burst
    /\ ioFailed' = (ioFailed \/ ~ok)
    /\ UNCHANGED <<models, backingUp, backupRequested, requestedArgs, lastReq,
                   callResult, cancelled, globalStorage, localStorage, transferFlag,
                   diskVars, now, saveVars, loadVars, histVars, serviceVars>>

\* writeToStorage: deleteFile settles; not-found and other failures are swallowed
DeleteFileDone(c, ok) ==
    /\ c \in inflight /\ c.pc = "deleteFile"
    /\ SetCycle(c, "done", c.cancelledAt)
    /\ hotExit' = IF DeleteFileOutcome(hotExit[c.filePath] # Absent, ok).removed
                  THEN [hotExit EXCEPT ![c.filePath] = Absent] ELSE hotExit
    /\ ioFailed' = (ioFailed \/ DeleteFileOutcome(hotExit[c.filePath] # Absent, ok).logged)
    /\ UNCHANGED <<models, backingUp, backupRequested, requestedArgs, lastReq, burst,
                   callResult, cancelled, globalStorage, localStorage, transferFlag,
                   diskVars, now, saveVars, loadVars, histVars, serviceVars>>

\* The finally callback of a backup whose caller is handed the failure of a
\* follow-up cycle
BackupFinally_FollowUpRejects(c) ==
    /\ c \in inflight /\ c.pc = "done"
    /\ IF backupRequested # NoRequest
       THEN /\ backingUp' = TRUE
            /\ inflight' = (inflight \ {c}) \cup
                   {StoreContentsInHotExitFile(backupRequested.model,
                        backupRequested.cancellation, NoId, TRUE,
                        requestedArgs.backupId, requestedArgs.contents)}
       ELSE /\ backingUp' = FALSE
            /\ inflight' = inflight \ {c}
    /\ backupRequested' = NoRequest
    /\ requestedArgs' = NoArgs
    /\ callResult' = IF c.followUp /\ c.cancelledAt = "none"
                                    /\ hotExit[c.filePath] # c.contents THEN "rejected"
                      ELSE IF ~c.followUp /\ callResult = "pending" THEN "resolved"
                      ELSE callResult
    /\ UNCHANGED <<models, lastReq, ioFailed, burst, cancelled, tierVars, diskVars,
                   now, saveVars, loadVars, histVars, serviceVars>>

\* A callback that clears the flag and starts the queued request only when the
\* cycle has written its content (then in place of finally)
BackupFinally_OnlyOnSuccess(c) ==
    /\ c \in inflight /\ c.pc = "done"
    /\ IF hotExit[c.filePath] # c.contents
       THEN /\ inflight' = inflight \ {c}
            /\ UNCHANGED <<backingUp, backupRequested, requestedArgs>>
       ELSE /\ IF backupRequested # NoRequest
               THEN /\ backingUp' = TRUE
                    /\ inflight' = (inflight \ {c}) \cup
                           {StoreContentsInHotExitFile(backupRequested.model,
                                backupRequested.cancellation, NoId, TRUE,
                                requestedArgs.backupId, requestedArgs.contents)}
               ELSE /\ backingUp' = FALSE
                    /\ inflight' = inflight \ {c}
            /\ backupRequested' = NoRequest
            /\ requestedArgs' = NoArgs
    /\ callResult' = IF ~c.followUp /\ callResult = "pending" THEN "resolved" ELSE callResult
    /\ UNCHANGED <<models, lastReq, ioFailed, burst, cancelled, tierVars, diskVars,
                   now, saveVars, loadVars, histVars, serviceVars>>

\* The finally callback of backup: clear the flag, start the queued request
BackupFinally(c) ==
    /\ c \in inflight /\ c.pc = "done"
    /\ IF backupRequested # NoRequest
       THEN /\ backingUp' = TRUE
            /\ inflight' = (inflight \ {c}) \cup
                   {StoreContentsInHotExitFile(backupRequested.model,
                        backupRequested.cancellation, NoId, TRUE,
                        requestedArgs.backupId, requestedArgs.contents)}
       ELSE /\ backingUp' = FALSE
            /\ inflight' = inflight \ {c}
    /\ backupRequested' = NoRequest
    /\ requestedArgs' = NoArgs
    /\ callResult' = IF ~c.followUp /\ callResult = "pending" THEN "resolved" ELSE callResult
    /\ UNCHANGED <<models, lastReq, ioFailed, burst, cancelled, tierVars, diskVars,
                   now, saveVars, loadVars, histVars, serviceVars>>

BackupIdsOf(d) == {NoId} \cup {i \in BackupIds : i[1] = d}

\* The coordinator with every I/O call succeeding and no cancellation
Next ==
    \/ \E d \in FileDocs : Edit(d)
    \/ \E d \in FileDocs : \E id \in BackupIdsOf(d) : Backup(d, "t1", id)
    \/ \E c \in inflight : CreateDirectoryDone(c, TRUE)
    \/ \E c \in inflight : WriteFileDone(c, TRUE)
    \/ \E c \in inflight : BackupFinally(c)

Spec == Init /\ [][Next]_vars

\* The coordinator of one document with failing I/O calls and cancellation
InitIO ==
    /\ InitCoordinator
    /\ InitStores
    /\ InitLoader
    /\ models = [d \in Docs |-> IF d = "a" THEN OpenedModel(d) ELSE NoModel]
    /\ fileContent = [d \in Docs |-> IF d = "a" THEN NB(<<>>, 0) ELSE Undefined]
    /\ fileMtime = [d \in Docs |-> 0]
    /\ trustedSet = {}
    /\ now = 1

NextIO ==
    \/ Edit("a")
    \/ \E tok \in Tokens : \E id \in BackupIdsOf("a") : Backup("a", tok, id)
    \/ \E tok \in Tokens : Cancel(tok)
    \/ \E c \in inflight, ok \in BOOLEAN : CreateDirectoryDone(c, ok)
    \/ \E c \in inflight, ok \in BOOLEAN : WriteFileDone(c, ok)
    \/ \E c \in inflight : BackupFinally(c)

SpecIO == InitIO /\ [][NextIO]_vars


\* The coordinator of one document when every I/O call terminates: a backup is
\* requested for content that differs from the content of the last request
NextLive ==
    \/ Edit("a")
    \/ \E tok \in Tokens : \E id \in BackupIdsOf("a") :
           /\ GetContent(models["a"]) # lastReq["a"].contents
           /\ Backup("a", tok, id)
    \/ \E tok \in Tokens : Cancel(tok)
    \/ \E c \in inflight, ok \in BOOLEAN : CreateDirectoryDone(c, ok)
    \/ \E c \in inflight, ok \in BOOLEAN : WriteFileDone(c, ok)
    \/ \E c \in inflight : BackupFinally(c)

\* Every I/O call started settles, and a settled promise runs its callbacks
IOTerminates ==
    /\ WF_vars(\E c \in inflight, ok \in BOOLEAN : CreateDirectoryDone(c, ok))
    /\ WF_vars(\E c \in inflight, ok \in BOOLEAN : WriteFileDone(c, ok))
    /\ WF_vars(\E c \in inflight : BackupFinally(c))

SpecLive == InitIO /\ [][NextLive]_vars /\ IOTerminates

(***************************************************************************)
(* Properties of the backup coordinator.                                   *)
(***************************************************************************)
\* The coordinator is Idle and nothing is queued
Quiescent == ~backingUp /\ inflight = {} /\ backupRequested = NoRequest

\* The hot-exit file of the key that document d's last backup request named
RecordOfLastRequest(d) ==
    hotExit[GetHashedFileName(StorageKey(d, lastReq[d].backupId))]

\* The content of d's model is still the content of d's last backup request
UneditedSinceLastRequest(d) ==
    lastReq[d] # NoLastReq /\ GetContent(models[d]) = lastReq[d].contents

\* C1: in every reachable state at most one write-or-delete cycle started by
\* backup is in flight, and a request is pending only while one is in flight
\* (the pending request is the single slot backupRequested).
C1_OneInFlightOnePending ==
    /\ Cardinality(inflight) <= 1
    /\ backingUp <=> inflight # {}
    /\ backupRequested # NoRequest => backingUp

\* C1 witness: a follow-up write is in flight while a further request is queued
C1_Witness ==
    /\ \E c \in inflight : c.followUp /\ c.pc = "writeFile"
    /\ backupRequested # NoRequest

\* C2 (as stated): requests of one document queued while a write is in flight
\* cause at most 2 writes (the one in flight and one follow-up), and once the
\* coordinator is idle the Backup Record of the key the requests named holds
\* the content of the last request.
C2_BurstPersistsLastRequest ==
    \A d \in FileDocs :
        (\A e \in FileDocs \ {d} : lastReq[e] = NoLastReq) =>
            /\ ~burst.late => burst.writes <= 2
            /\ Quiescent /\ UneditedSinceLastRequest(d) =>
                   RecordOfLastRequest(d).contents = lastReq[d].contents

\* C3 (as stated, in the form a finite run refutes): once the coordinator is
\* idle, every document whose last backup request used its static key has the
\* content of that request in the hot-exit store.
C3_EveryDocumentPersisted ==
    Quiescent =>
        \A d \in FileDocs :
            UneditedSinceLastRequest(d) /\ lastReq[d].backupId = NoId =>
                RecordOfLastRequest(d).contents = lastReq[d].contents

\* C4 (as stated): the cycle started for a pending request writes under the
\* storage key that the request named (its backup id, else the static key).
C4_FollowUpUsesRequestKey ==
    \A c \in inflight : c.followUp => c.key = StorageKey(c.model, c.namedId)

\* C5: a backup call made while a write is in flight replaces the pending
\* request by its own, starts no file-system operation, changes no hot-exit
\* file, and its completion is resolved when the call returns.
C5_QueuedCallReplacesPending ==
    [][\A d \in FileDocs, tok \in Tokens, id \in BackupIds \cup {NoId} :
          backingUp /\ Backup(d, tok, id) =>
              /\ backupRequested' = [model |-> d, cancellation |-> tok]
              /\ inflight' = inflight
              /\ hotExit' = hotExit
              /\ callResult' = "resolved"]_vars

\* C5 witness: a queued request of document "b" has replaced a queued request
\* of document "a" (a's last request is neither in flight nor pending), its
\* call has resolved, and its content is not in the hot-exit store
C5_Witness ==
    /\ backupRequested.model = "b"
    /\ callResult = "resolved"
    /\ RecordOfLastRequest("b").contents # lastReq["b"].contents
    /\ \E c \in inflight : c.model = "a" /\ c.reqContents # lastReq["a"].contents


(***************************************************************************)
(* The storage tier resolver.  `fail` names the one external call that     *)
(* throws during the operation ("none": every call succeeds).              *)
(***************************************************************************)
FailKinds == {"none", "readFile", "deleteFile", "hotExitRead", "stat", "hash",
              "interpreter", "trust"}

\* fileSystem.stat(file.fsPath) throws: injected failure, or no such file
StatThrows(file, fail) == fail = "stat" \/ fileContent[file] = Undefined

\* The staleness test shared by tiers 1 and 2:
\* data.lastModifiedTimeMs && file.scheme === 'file', then stat.mtime > lastModifiedTimeMs
ChecksMtime(file, data) == data.lastModifiedTimeMs # 0 /\ Scheme(file) = "file"
IsStale(file, data) == fileMtime[file] > data.lastModifiedTimeMs

\* getStoredContentsFromFile without the comparison of the modification times
GetStoredContentsFromFile_NoStaleness(file, key, fail) ==
    LET data == hotExit[GetHashedFileName(key)]
    IN  IF data.kind # "envelope" \/ fail = "hotExitRead" THEN Undefined
        ELSE IF Truthy(data.contents) THEN data.contents
        ELSE Undefined

\* getStoredContentsFromFile: every exception is caught and yields undefined
GetStoredContentsFromFile(file, key, fail) ==
    LET data == hotExit[GetHashedFileName(key)]
    IN  IF data.kind # "envelope" \/ fail = "hotExitRead" THEN Undefined
        ELSE IF ChecksMtime(file, data) /\ StatThrows(file, fail) THEN Undefined
        ELSE IF ChecksMtime(file, data) /\ IsStale(file, data) THEN Undefined
        ELSE IF Truthy(data.contents) THEN data.contents
        ELSE Undefined

\* transferStorage that removes one entry of the global store in each run
TransferStorage_OneEntry(storage) ==
    LET present == {k \in Keys : k[1] = KeyPrefix /\ storage[k] # Absent}
    IN  IF present = {} THEN storage
        ELSE [storage EXCEPT ![CHOOSE k \in present : TRUE] = Absent]

\* transferStorage that removes every entry of the global store
TransferStorage_EveryKey(storage) ==
    [k \in Keys |-> Absent]

\* transferStorage: set the flag, remove every entry whose key starts with KeyPrefix
TransferStorage(storage) ==
    [k \in Keys |-> IF k[1] = KeyPrefix THEN Absent ELSE storage[k]]

\* getStoredContentsFromGlobalStorage: does the lookup find data (and so sweep)?
GlobalDataFound(key) == globalStorage[key] # Absent

\* getStoredContentsFromGlobalStorage: the value returned; exceptions are swallowed
GetStoredContentsFromGlobalStorage(file, key, fail) ==
    LET data == globalStorage[key]
    IN  IF data = Absent THEN Undefined
        ELSE IF data.kind = "string" THEN Undefined
        ELSE IF ChecksMtime(file, data) /\ StatThrows(file, fail) THEN Undefined
        ELSE IF ChecksMtime(file, data) /\ IsStale(file, data) THEN Undefined
        ELSE IF Truthy(data.contents) THEN data.contents
        ELSE Undefined

\* getStoredContentsFromLocalStorage: the value returned (the entry is then cleared)
GetStoredContentsFromLocalStorage(key) ==
    IF Truthy(localStorage[key]) THEN localStorage[key] ELSE Undefined

\* getStoredContentsFromFile ends in its catch block with an error other than
\* not-found: the read fails, JSON.parse rejects the text, or stat throws
Tier1ReadFails(file, key, fail) ==
    LET data == hotExit[GetHashedFileName(key)]
    IN  \/ fail = "hotExitRead"
        \/ data.kind = "garbage"
        \/ data.kind = "envelope" /\ ChecksMtime(file, data) /\ StatThrows(file, fail)

\* getStoredContents that returns nothing when the read of tier 1 fails
GetStoredContents_StopOnFailure(file, backupId, fail) ==
    LET key == StorageKey(file, backupId)
        r1 == GetStoredContentsFromFile(file, key, fail)
        r2 == GetStoredContentsFromGlobalStorage(file, key, fail)
        r3 == GetStoredContentsFromLocalStorage(key)
        stop == Tier1ReadFails(file, key, fail)
        swept == ~stop /\ ~Truthy(r1) /\ GlobalDataFound(key)
        readLocal == ~stop /\ ~Truthy(r1) /\ ~Truthy(r2)
    IN  [result |-> IF stop THEN Undefined
                    ELSE IF Truthy(r1) THEN r1 ELSE IF Truthy(r2) THEN r2 ELSE r3,
         tier |-> IF stop THEN 0
                  ELSE IF Truthy(r1) THEN 1 ELSE IF Truthy(r2) THEN 2
                  ELSE IF Truthy(r3) THEN 3 ELSE 0,
         globalStorage |-> IF swept THEN TransferStorage(globalStorage)
                           ELSE globalStorage,
         transferFlag |-> (transferFlag \/ swept),
         localStorage |-> IF readLocal /\ Truthy(r3)
                          THEN [localStorage EXCEPT ![key] = Undefined]
                          ELSE localStorage]

\* getStoredContents: the first tier that yields content, and the stores afterwards
GetStoredContents(file, backupId, fail) ==
    LET key == StorageKey(file, backupId)
        r1 == GetStoredContentsFromFile(file, key, fail)
        r2 == GetStoredContentsFromGlobalStorage(file, key, fail)
        r3 == GetStoredContentsFromLocalStorage(key)
        swept == ~Truthy(r1) /\ GlobalDataFound(key)
        readLocal == ~Truthy(r1) /\ ~Truthy(r2)
    IN  [result |-> IF Truthy(r1) THEN r1 ELSE IF Truthy(r2) THEN r2 ELSE r3,
         tier |-> IF Truthy(r1) THEN 1 ELSE IF Truthy(r2) THEN 2
                  ELSE IF Truthy(r3) THEN 3 ELSE 0,
         globalStorage |-> IF swept THEN TransferStorage(globalStorage)
                           ELSE globalStorage,
         transferFlag |-> (transferFlag \/ swept),
         localStorage |-> IF readLocal /\ Truthy(r3)
                          THEN [localStorage EXCEPT ![key] = Undefined]
                          ELSE localStorage]

(***************************************************************************)
(* Operations on the storage tiers, each getStoredContents call advancing  *)
(* from one await to the next so that calls interleave.                    *)
(***************************************************************************)
\* Stored contents by tier, so that a result shows which tier it came from
HotExitText == NB(<<"hotExitCell">>, 0)
GlobalText == NB(<<"globalCell">>, 0)
LocalText == NB(<<"localCell">>, 0)

\* The global-store entries transferStorage removes from `storage`
Removed(storage) ==
    {<<k, storage[k]>> : k \in {j \in Keys : j[1] = KeyPrefix /\ storage[j] # Absent}}

\* deleteBackup(model, backupId): clearHotExit deletes the hot-exit file of the
\* key; writeToStorage swallows a failing deleteFile
DeleteBackup(d, backupId, ok) ==
    /\ models[d] # NoModel
    /\ LET key == StorageKey(d, backupId)
           filePath == GetHashedFileName(key)
           out == DeleteFileOutcome(hotExit[filePath] # Absent, ok)
       IN  /\ WriteToStorageStart(Absent, FALSE) = "deleteFile"
           /\ hotExit' = IF out.removed THEN [hotExit EXCEPT ![filePath] = Absent]
                         ELSE hotExit
           /\ lastCall' = [op |-> "deleteBackup", key |-> key, ok |-> ~out.logged,
                           again |-> FALSE, settled |-> out.settled]
    /\ UNCHANGED <<models, coordVars, cancelled, globalStorage, localStorage,
                   transferFlag, diskVars, now, saveVars, loadVars, queries,
                   sweptEntries, lastTrustedSave, issuedIds, saveHist, serviceVars>>

\* transferStorage, run on its own
TransferStorageCall ==
    /\ globalStorage' = TransferStorage(globalStorage)
    /\ transferFlag' = TRUE
    /\ sweptEntries' = sweptEntries \cup Removed(globalStorage)
    /\ lastCall' = [op |-> "transferStorage", key |-> NoId, ok |-> TRUE,
                    again |-> lastCall.op = "transferStorage", settled |-> "resolved"]
    /\ UNCHANGED <<models, coordVars, cancelled, hotExit, localStorage, diskVars, now,
                   saveVars, loadVars, queries, lastTrustedSave, issuedIds, saveHist,
                   serviceVars>>

\* getStoredContents(file, backupId) up to the await of tier 1
QueryStart(q, file, backupId) ==
    /\ queries[q].pc = "idle"
    /\ \A p \in QueryIds : p < q => queries[p].pc # "idle"
    /\ LET key == StorageKey(file, backupId)
       IN  /\ queries' = [queries EXCEPT ![q] =
                  [NoQuery EXCEPT !.pc = "file", !.file = file, !.key = key,
                                  !.afterDelete = /\ lastCall.op = "deleteBackup"
                                                  /\ lastCall.key = key
                                                  /\ lastCall.ok]]
           /\ lastCall' = [op |-> "getStoredContents", key |-> key, ok |-> TRUE,
                           again |-> FALSE, settled |-> "pending"]
    /\ UNCHANGED <<models, coordVars, cancelled, tierVars, diskVars, now, saveVars,
                   loadVars, sweptEntries, lastTrustedSave, issuedIds, saveHist,
                   serviceVars>>

\* getStoredContents that goes on to tier 2 whatever tier 1 yielded
QueryFile_AlwaysContinue(q) ==
    /\ queries[q].pc = "file"
    /\ LET r1 == GetStoredContentsFromFile(queries[q].file, queries[q].key, "none")
       IN  queries' = [queries EXCEPT ![q] = [@ EXCEPT !.r1 = r1, !.pc = "global"]]
    /\ UNCHANGED <<models, coordVars, cancelled, tierVars, diskVars, now, saveVars,
                   loadVars, lastCall, sweptEntries, lastTrustedSave, issuedIds, saveHist,
                   serviceVars>>

\* getStoredContents: getStoredContentsFromFile settles; `if (!result)` goes on
QueryFile(q) ==
    /\ queries[q].pc = "file"
    /\ LET r1 == GetStoredContentsFromFile(queries[q].file, queries[q].key, "none")
       IN  queries' = [queries EXCEPT ![q] =
               IF Truthy(r1) THEN [@ EXCEPT !.r1 = r1, !.pc = "done", !.result = r1]
               ELSE [@ EXCEPT !.r1 = r1, !.pc = "global"]]
    /\ UNCHANGED <<models, coordVars, cancelled, tierVars, diskVars, now, saveVars,
                   loadVars, lastCall, sweptEntries, lastTrustedSave, issuedIds, saveHist,
                   serviceVars>>

\* getStoredContentsFromGlobalStorage that sweeps the store before it looks up
\* the entry of its key
QueryGlobal_SweepFirst(q) ==
    /\ queries[q].pc = "global"
    /\ LET key == queries[q].key
           r2 == IF GlobalDataFound(key) /\ key[1] = KeyPrefix THEN Undefined
                 ELSE GetStoredContentsFromGlobalStorage(queries[q].file, key, "none")
       IN  /\ queries' = [queries EXCEPT ![q] =
                  IF Truthy(r2) THEN [@ EXCEPT !.r2 = r2, !.pc = "done", !.result = r2]
                  ELSE [@ EXCEPT !.r2 = r2, !.pc = "local"]]
           /\ IF GlobalDataFound(key)
              THEN /\ globalStorage' = TransferStorage(globalStorage)
                   /\ transferFlag' = TRUE
                   /\ sweptEntries' = sweptEntries \cup Removed(globalStorage)
              ELSE UNCHANGED <<globalStorage, transferFlag, sweptEntries>>
    /\ UNCHANGED <<models, coordVars, cancelled, hotExit, localStorage, diskVars, now,
                   saveVars, loadVars, lastCall, lastTrustedSave, issuedIds, saveHist,
                   serviceVars>>

\* getStoredContents: getStoredContentsFromGlobalStorage settles (it sweeps the
\* global store when it finds an entry); `if (!result)` goes on to tier 3
QueryGlobal(q) ==
    /\ queries[q].pc = "global"
    /\ LET key == queries[q].key
           r2 == GetStoredContentsFromGlobalStorage(queries[q].file, key, "none")
       IN  /\ queries' = [queries EXCEPT ![q] =
                  IF Truthy(r2) THEN [@ EXCEPT !.r2 = r2, !.pc = "done", !.result = r2]
                  ELSE [@ EXCEPT !.r2 = r2, !.pc = "local"]]
           /\ IF GlobalDataFound(key)
              THEN /\ globalStorage' = TransferStorage(globalStorage)
                   /\ transferFlag' = TRUE
                   /\ sweptEntries' = sweptEntries \cup Removed(globalStorage)
              ELSE UNCHANGED <<globalStorage, transferFlag, sweptEntries>>
    /\ UNCHANGED <<models, coordVars, cancelled, hotExit, localStorage, diskVars, now,
                   saveVars, loadVars, lastCall, lastTrustedSave, issuedIds, saveHist,
                   serviceVars>>

\* getStoredContentsFromLocalStorage that leaves the entry in the store
QueryLocal_KeepEntry(q) ==
    /\ queries[q].pc = "local"
    /\ LET r3 == GetStoredContentsFromLocalStorage(queries[q].key)
       IN  queries' = [queries EXCEPT ![q] =
               [@ EXCEPT !.r3 = r3, !.pc = "done", !.result = r3]]
    /\ UNCHANGED <<models, coordVars, cancelled, tierVars, diskVars, now,
                   saveVars, loadVars, lastCall, sweptEntries, lastTrustedSave,
                   issuedIds, saveHist, serviceVars>>

\* getStoredContents: getStoredContentsFromLocalStorage reads the entry and
\* clears it in the same synchronous block, and the call returns
QueryLocal(q) ==
    /\ queries[q].pc = "local"
    /\ LET key == queries[q].key
           r3 == GetStoredContentsFromLocalStorage(key)
       IN  /\ queries' = [queries EXCEPT ![q] =
                  [@ EXCEPT !.r3 = r3, !.pc = "done", !.result = r3]]
           /\ localStorage' = IF Truthy(r3) THEN [localStorage EXCEPT ![key] = Undefined]
                              ELSE localStorage
    /\ UNCHANGED <<models, coordVars, cancelled, hotExit, globalStorage, transferFlag,
                   diskVars, now, saveVars, loadVars, lastCall, sweptEntries,
                   lastTrustedSave, issuedIds, saveHist, serviceVars>>

\* The tiers as earlier versions and earlier sessions can have left them: records
\* under the static keys of documents a and b and under a backup id of a, older
\* (time 1) or not older (time MaxTime) than the document file
InitTiers ==
    /\ InitCoordinator
    /\ InitLoader
    /\ models = [d \in Docs |-> IF d \in FileDocs THEN OpenedModel(d) ELSE NoModel]
    /\ fileContent = [d \in Docs |-> IF d \in FileDocs THEN NB(<<>>, 0) ELSE Undefined]
    /\ fileMtime = [d \in Docs |-> IF d \in FileDocs THEN MaxTime ELSE 0]
    /\ trustedSet = {}
    /\ now = MaxTime
    /\ \E e1 \in {Absent, Envelope(HotExitText, 1), Envelope(HotExitText, MaxTime)} :
           hotExit = [p \in HotExitPaths |->
               IF p = GetHashedFileName(GetStaticStorageKey("a")) THEN e1
               ELSE IF p = GetHashedFileName(GenerateBackupId("a"))
                    THEN Envelope(HotExitText, MaxTime)
               ELSE Absent]
    /\ \E ga \in {Absent, BareString(GlobalText), Envelope(GlobalText, 1),
                  Envelope(GlobalText, MaxTime)} :
           globalStorage = [k \in Keys |->
               IF k = GetStaticStorageKey("a") THEN ga
               ELSE IF k = GetStaticStorageKey("b") THEN Envelope(GlobalText, MaxTime)
               ELSE Absent]
    /\ \E l \in {Undefined, LocalText} :
           localStorage = [k \in Keys |->
               IF k = GetStaticStorageKey("a") THEN l ELSE Undefined]
    /\ transferFlag = FALSE

NextTiers ==
    \/ \E id \in BackupIdsOf("a") : DeleteBackup("a", id, TRUE)
    \/ TransferStorageCall
    \/ \E q \in QueryIds : \E id \in BackupIdsOf("a") : QueryStart(q, "a", id)
    \/ \E q \in QueryIds : QueryFile(q)
    \/ \E q \in QueryIds : QueryGlobal(q)
    \/ \E q \in QueryIds : QueryLocal(q)

SpecTiers == InitTiers /\ [][NextTiers]_vars

(***************************************************************************)
(* The sweep over a global store that also holds an entry keyed by a       *)
(* backup id.                                                              *)
(***************************************************************************)
InitSweep ==
    /\ InitCoordinator
    /\ InitLoader
    /\ models = [d \in Docs |-> IF d \in FileDocs THEN OpenedModel(d) ELSE NoModel]
    /\ fileContent = [d \in Docs |-> IF d \in FileDocs THEN NB(<<>>, 0) ELSE Undefined]
    /\ fileMtime = [d \in Docs |-> IF d \in FileDocs THEN MaxTime ELSE 0]
    /\ trustedSet = {}
    /\ now = MaxTime
    /\ \E e1 \in {Absent, Envelope(HotExitText, MaxTime)},
          e2 \in {Absent, Envelope(HotExitText, MaxTime)} :
           hotExit = [p \in HotExitPaths |->
               IF p = GetHashedFileName(GetStaticStorageKey("a")) THEN e1
               ELSE IF p = GetHashedFileName(GetStaticStorageKey("b")) THEN e2
               ELSE Absent]
    /\ \E ga \in {Absent, BareString(GlobalText), Envelope(GlobalText, MaxTime)},
          gb \in {Absent, Envelope(GlobalText, MaxTime)},
          gid \in {Absent, Envelope(GlobalText, MaxTime)} :
           globalStorage = [k \in Keys |->
               IF k = GetStaticStorageKey("a") THEN ga
               ELSE IF k = GetStaticStorageKey("b") THEN gb
               ELSE IF k = GenerateBackupId("a") THEN gid
               ELSE Absent]
    /\ \E la \in {Undefined, LocalText}, lb \in {Undefined, LocalText} :
           localStorage = [k \in Keys |->
               IF k = GetStaticStorageKey("a") THEN la
               ELSE IF k = GetStaticStorageKey("b") THEN lb
               ELSE Undefined]
    /\ transferFlag = FALSE

\* transferStorage on its own, and one getStoredContents call that may run it
NextSweep ==
    \/ TransferStorageCall
    \/ \E id \in BackupIdsOf("a") : QueryStart(1, "a", id)
    \/ QueryFile(1)
    \/ QueryGlobal(1)
    \/ QueryLocal(1)

SpecSweep == InitSweep /\ [][NextSweep]_vars

(***************************************************************************)
(* backup and deleteBackup of one document, with failing I/O calls.        *)
(***************************************************************************)
InitClear ==
    /\ InitCoordinator
    /\ InitStores
    /\ InitLoader
    /\ models = [d \in Docs |-> IF d = "a" THEN OpenedModel(d) ELSE NoModel]
    /\ fileContent = [d \in Docs |-> IF d = "a" THEN NB(<<>>, 0) ELSE Undefined]
    /\ fileMtime = [d \in Docs |-> 0]
    /\ trustedSet = {}
    /\ now = 1

NextClear ==
    \/ Edit("a")
    \/ \E id \in BackupIdsOf("a") : Backup("a", "t1", id)
    \/ \E c \in inflight, ok \in BOOLEAN : CreateDirectoryDone(c, ok)
    \/ \E c \in inflight, ok \in BOOLEAN : WriteFileDone(c, ok)
    \/ \E c \in inflight : BackupFinally(c)
    \/ \E id \in BackupIdsOf("a"), ok \in BOOLEAN : DeleteBackup("a", id, ok)

SpecClear == InitClear /\ [][NextClear]_vars

(***************************************************************************)
(* The model loader.                                                       *)
(***************************************************************************)
\* the python main version when metadata gives none and no interpreter is usable
DefaultPythonNumber == 3

\* extractPythonMainVersion: the metadata's number, else the usable interpreter's
\* major version (here: the default)
ExtractPythonMainVersion(json) ==
    IF json.ver # 0 THEN json.ver ELSE DefaultPythonNumber

\* trustService.isNotebookTrusted(identity, content)
IsNotebookTrusted(file, contents) == <<file, contents>> \in trustedSet

\* A remapping that gives every imported cell the identifier of the first
Remapped_FirstIndex(cells) ==
    [i \in 1..Len(cells) |->
        [id |-> <<"NotebookImport", 0>>, state |-> "finished", data |-> cells[i]]]

\* The cells of the interchange format remapped to cells of the model
Remapped(cells) ==
    [i \in 1..Len(cells) |->
        [id |-> <<"NotebookImport", i - 1>>, state |-> "finished", data |-> cells[i]]]

Rejected == [status |-> "rejected", model |-> NoModel]
Resolved(model) == [status |-> "resolved", model |-> model]

\* loadContents that asks the trust service about the content it parses, also
\* when that is recovered content
LoadContents_CheckParsed(file, contents, isInitiallyDirty, trueContents, fail, uuid) ==
    LET hasJson == Truthy(contents)
        contentsToCheck == contents
        noTrustCheck == contents = Undefined \/ IsUntitledFile(file)
        cells == IF hasJson THEN Remapped(contents.cells) ELSE <<>>
    IN  IF hasJson /\ contents.kind = "garbage" THEN Rejected
        ELSE IF hasJson /\ contents.kind = "nocells" THEN Rejected
        ELSE IF hasJson /\ contents.ver = 0 /\ fail = "interpreter" THEN Rejected
        ELSE IF ~noTrustCheck /\ fail = "trust" THEN Rejected
        ELSE Resolved(CreateModel(
                 IF noTrustCheck THEN TRUE ELSE IsNotebookTrusted(file, contentsToCheck),
                 file,
                 IF cells = <<>> THEN <<CreateEmptyCell(uuid)>> ELSE cells,
                 isInitiallyDirty,
                 IF hasJson THEN ExtractPythonMainVersion(contents)
                 ELSE DefaultPythonNumber))

\* loadContents that asks the trust service about every document
LoadContents_AlwaysAsks(file, contents, isInitiallyDirty, trueContents, fail, uuid) ==
    LET hasJson == Truthy(contents)
        contentsToCheck == IF isInitiallyDirty /\ trueContents # Undefined
                           THEN trueContents ELSE contents
        noTrustCheck == FALSE
        cells == IF hasJson THEN Remapped(contents.cells) ELSE <<>>
    IN  IF hasJson /\ contents.kind = "garbage" THEN Rejected
        ELSE IF hasJson /\ contents.kind = "nocells" THEN Rejected
        ELSE IF hasJson /\ contents.ver = 0 /\ fail = "interpreter" THEN Rejected
        ELSE IF ~noTrustCheck /\ fail = "trust" THEN Rejected
        ELSE Resolved(CreateModel(
                 IF noTrustCheck THEN TRUE ELSE IsNotebookTrusted(file, contentsToCheck),
                 file,
                 IF cells = <<>> THEN <<CreateEmptyCell(uuid)>> ELSE cells,
                 isInitiallyDirty,
                 IF hasJson THEN ExtractPythonMainVersion(contents)
                 ELSE DefaultPythonNumber))

\* loadContents: the promise it returns, rejected when one of its steps throws
LoadContents(file, contents, isInitiallyDirty, trueContents, fail, uuid) ==
    LET hasJson == Truthy(contents)
        contentsToCheck == IF isInitiallyDirty /\ trueContents # Undefined
                           THEN trueContents ELSE contents
        noTrustCheck == contents = Undefined \/ IsUntitledFile(file)
        cells == IF hasJson THEN Remapped(contents.cells) ELSE <<>>
    IN  IF hasJson /\ contents.kind = "garbage" THEN Rejected
        ELSE IF hasJson /\ contents.kind = "nocells" THEN Rejected
        ELSE IF hasJson /\ contents.ver = 0 /\ fail = "interpreter" THEN Rejected
        ELSE IF ~noTrustCheck /\ fail = "trust" THEN Rejected
        ELSE Resolved(CreateModel(
                 IF noTrustCheck THEN TRUE ELSE IsNotebookTrusted(file, contentsToCheck),
                 file,
                 IF cells = <<>> THEN <<CreateEmptyCell(uuid)>> ELSE cells,
                 isInitiallyDirty,
                 IF hasJson THEN ExtractPythonMainVersion(contents)
                 ELSE DefaultPythonNumber))

\* `typeof options === 'boolean' ? options : !!options`
SkipDirtyContents(options) ==
    IF options.type = "boolean" THEN options.flag
    ELSE options.type = "string" /\ options.value # NoId

\* `typeof options === 'string' ? options : skip ? undefined : getStaticStorageKey(file)`
LoadBackupId(file, options) ==
    IF options.type = "string" THEN options.value
    ELSE IF SkipDirtyContents(options) THEN NoId
    ELSE GetStaticStorageKey(file)

\* The model created in the catch block of loadFromFile
FallbackModel(file) == CreateModel(TRUE, file, <<>>, FALSE, DefaultPythonNumber)

\* The stores as a load that touches none of them leaves them
StoresUnchanged ==
    [hotExit |-> hotExit, globalStorage |-> globalStorage,
     transferFlag |-> transferFlag, localStorage |-> localStorage]

\* loadFromFile that skips dirty content without deleting the hot-exit file
LoadFromFile_NoClear(file, possibleContents, options, fail, uuid) ==
    LET readThrows == ~IsUntitledFile(file)
                        /\ (fail = "readFile" \/ fileContent[file] = Undefined)
        contents == IF IsUntitledFile(file) THEN possibleContents ELSE fileContent[file]
        skip == SkipDirtyContents(options)
        backupId == LoadBackupId(file, options)
        cleared == hotExit
        stored == GetStoredContents(file, backupId, fail)
        dirtyContents == IF skip THEN Undefined ELSE stored.result
        outcome == IF Truthy(dirtyContents)
                   THEN LoadContents(file, dirtyContents, TRUE, contents, fail, uuid)
                   ELSE LoadContents(file, contents, FALSE, Undefined, fail, uuid)
    IN  IF readThrows \/ fail = "hash"
        THEN [outcome |-> Resolved(FallbackModel(file)), stores |-> StoresUnchanged]
        ELSE IF skip
        THEN [outcome |-> outcome,
              stores |-> [StoresUnchanged EXCEPT !.hotExit = cleared]]
        ELSE [outcome |-> outcome,
              stores |-> [hotExit |-> hotExit,
                          globalStorage |-> stored.globalStorage,
                          transferFlag |-> stored.transferFlag,
                          localStorage |-> stored.localStorage]]

\* loadFromFile that reads the file whatever the scheme of the identity
LoadFromFile_AlwaysReads(file, possibleContents, options, fail, uuid) ==
    LET readThrows == fail = "readFile" \/ fileContent[file] = Undefined
        contents == fileContent[file]
        skip == SkipDirtyContents(options)
        backupId == LoadBackupId(file, options)
        cleared == IF fail = "deleteFile" THEN hotExit
                   ELSE [hotExit EXCEPT
                            ![GetHashedFileName(StorageKey(file, backupId))] = Absent]
        stored == GetStoredContents(file, backupId, fail)
        dirtyContents == IF skip THEN Undefined ELSE stored.result
        outcome == IF Truthy(dirtyContents)
                   THEN LoadContents(file, dirtyContents, TRUE, contents, fail, uuid)
                   ELSE LoadContents(file, contents, FALSE, Undefined, fail, uuid)
    IN  IF readThrows \/ fail = "hash"
        THEN [outcome |-> Resolved(FallbackModel(file)), stores |-> StoresUnchanged]
        ELSE IF skip
        THEN [outcome |-> outcome,
              stores |-> [StoresUnchanged EXCEPT !.hotExit = cleared]]
        ELSE [outcome |-> outcome,
              stores |-> [hotExit |-> hotExit,
                          globalStorage |-> stored.globalStorage,
                          transferFlag |-> stored.transferFlag,
                          localStorage |-> stored.localStorage]]

\* loadFromFile that deletes the hot-exit file before it reads the document
LoadFromFile_ClearBeforeRead(file, possibleContents, options, fail, uuid) ==
    LET readThrows == ~IsUntitledFile(file)
                        /\ (fail = "readFile" \/ fileContent[file] = Undefined)
        contents == IF IsUntitledFile(file) THEN possibleContents ELSE fileContent[file]
        skip == SkipDirtyContents(options)
        backupId == LoadBackupId(file, options)
        cleared == IF fail = "deleteFile" THEN hotExit
                   ELSE [hotExit EXCEPT
                            ![GetHashedFileName(StorageKey(file, backupId))] = Absent]
        stored == GetStoredContents(file, backupId, fail)
        dirtyContents == IF skip THEN Undefined ELSE stored.result
        outcome == IF Truthy(dirtyContents)
                   THEN LoadContents(file, dirtyContents, TRUE, contents, fail, uuid)
                   ELSE LoadContents(file, contents, FALSE, Undefined, fail, uuid)
    IN  IF readThrows \/ fail = "hash"
        THEN [outcome |-> Resolved(FallbackModel(file)),
              stores |-> IF skip /\ fail # "hash"
                         THEN [StoresUnchanged EXCEPT !.hotExit = cleared]
                         ELSE StoresUnchanged]
        ELSE IF skip
        THEN [outcome |-> outcome,
              stores |-> [StoresUnchanged EXCEPT !.hotExit = cleared]]
        ELSE [outcome |-> outcome,
              stores |-> [hotExit |-> hotExit,
                          globalStorage |-> stored.globalStorage,
                          transferFlag |-> stored.transferFlag,
                          localStorage |-> stored.localStorage]]

\* loadFromFile: the promise it returns and the stores afterwards.  Only what
\* is awaited inside the try block reaches the catch block: the promise of
\* loadContents is returned without await, so its rejection is the load's.
LoadFromFile(file, possibleContents, options, fail, uuid) ==
    LET readThrows == ~IsUntitledFile(file)
                        /\ (fail = "readFile" \/ fileContent[file] = Undefined)
        contents == IF IsUntitledFile(file) THEN possibleContents ELSE fileContent[file]
        skip == SkipDirtyContents(options)
        backupId == LoadBackupId(file, options)
        cleared == IF fail = "deleteFile" THEN hotExit
                   ELSE [hotExit EXCEPT
                            ![GetHashedFileName(StorageKey(file, backupId))] = Absent]
        stored == GetStoredContents(file, backupId, fail)
        dirtyContents == IF skip THEN Undefined ELSE stored.result
        outcome == IF Truthy(dirtyContents)
                   THEN LoadContents(file, dirtyContents, TRUE, contents, fail, uuid)
                   ELSE LoadContents(file, contents, FALSE, Undefined, fail, uuid)
    IN  IF readThrows \/ fail = "hash"
        THEN [outcome |-> Resolved(FallbackModel(file)), stores |-> StoresUnchanged]
        ELSE IF skip
        THEN [outcome |-> outcome,
              stores |-> [StoresUnchanged EXCEPT !.hotExit = cleared]]
        ELSE [outcome |-> outcome,
              stores |-> [hotExit |-> hotExit,
                          globalStorage |-> stored.globalStorage,
                          transferFlag |-> stored.transferFlag,
                          localStorage |-> stored.localStorage]]

\* load(file, possibleContents, options): the editor adopts the model returned
Load(file, possibleContents, options, fail) ==
    /\ nLoads < MaxLoads
    /\ LET r == LoadFromFile(file, possibleContents, options, fail, <<"uuid", nLoads + 1>>)
       IN  /\ loadResult' = [status |-> r.outcome.status, file |-> file,
                             options |-> options, fail |-> fail,
                             model |-> r.outcome.model, saved |-> lastSaved]
           /\ models' = IF r.outcome.status = "resolved"
                        THEN [models EXCEPT ![file] = r.outcome.model] ELSE models
           /\ hotExit' = r.stores.hotExit
           /\ globalStorage' = r.stores.globalStorage
           /\ transferFlag' = r.stores.transferFlag
           /\ localStorage' = r.stores.localStorage
    /\ nLoads' = nLoads + 1
    /\ issuedIds' = issuedIds \cup
           {c.id : c \in {x \in Range(loadResult'.model.cells) : x.id[1] = "uuid"}}
    /\ sweptEntries' = sweptEntries \cup
           {<<k, globalStorage[k]>> : k \in {j \in Keys : globalStorage'[j] # globalStorage[j]}}
    /\ UNCHANGED <<coordVars, cancelled, diskVars, now, saveVars, queries, lastCall,
                   lastTrustedSave, saveHist, serviceVars>>


\* revert that replaces the model by the model it has loaded
Revert_AdoptsLoaded(d, fail) ==
    /\ models[d] # NoModel
    /\ nLoads < MaxLoads
    /\ LET r == LoadFromFile(models[d].file, Undefined, OptUndefined, fail,
                             <<"uuid", nLoads + 1>>)
       IN  /\ lastCall' = [op |-> "revert", key |-> GetStaticStorageKey(d),
                           ok |-> r.outcome.status = "resolved", again |-> FALSE,
                           settled |-> r.outcome.status]
           /\ models' = IF r.outcome.status = "resolved"
                        THEN [models EXCEPT ![d] = r.outcome.model] ELSE models
           /\ hotExit' = r.stores.hotExit
           /\ globalStorage' = r.stores.globalStorage
           /\ transferFlag' = r.stores.transferFlag
           /\ localStorage' = r.stores.localStorage
           /\ issuedIds' = issuedIds \cup
                  {c.id : c \in {x \in Range(r.outcome.model.cells) : x.id[1] = "uuid"}}
           /\ sweptEntries' = sweptEntries \cup
                  {<<k, globalStorage[k]>> :
                      k \in {j \in Keys : r.stores.globalStorage[j] # globalStorage[j]}}
    /\ nLoads' = nLoads + 1
    /\ UNCHANGED <<coordVars, cancelled, diskVars, now, saveVars, loadResult,
                   queries, lastTrustedSave, saveHist, serviceVars>>

\* revert(model): `await this.loadFromFile(model.file)`, with no content from the
\* caller and no options; the model loaded is dropped, the promise is the load's
Revert(d, fail) ==
    /\ models[d] # NoModel
    /\ nLoads < MaxLoads
    /\ LET r == LoadFromFile(models[d].file, Undefined, OptUndefined, fail,
                             <<"uuid", nLoads + 1>>)
       IN  /\ lastCall' = [op |-> "revert", key |-> GetStaticStorageKey(d),
                           ok |-> r.outcome.status = "resolved", again |-> FALSE,
                           settled |-> r.outcome.status]
           /\ models' = models
           /\ hotExit' = r.stores.hotExit
           /\ globalStorage' = r.stores.globalStorage
           /\ transferFlag' = r.stores.transferFlag
           /\ localStorage' = r.stores.localStorage
           /\ issuedIds' = issuedIds \cup
                  {c.id : c \in {x \in Range(r.outcome.model.cells) : x.id[1] = "uuid"}}
           /\ sweptEntries' = sweptEntries \cup
                  {<<k, globalStorage[k]>> :
                      k \in {j \in Keys : r.stores.globalStorage[j] # globalStorage[j]}}
    /\ nLoads' = nLoads + 1
    /\ UNCHANGED <<coordVars, cancelled, diskVars, now, saveVars, loadResult,
                   queries, lastTrustedSave, saveHist, serviceVars>>

(***************************************************************************)
(* save.                                                                   *)
(***************************************************************************)
\* save up to Promise.all: the content is read, the write and (for a trusted
\* model) the trust registration are started
SaveStart(d) ==
    /\ saving = NoSave
    /\ models[d] # NoModel
    /\ saving' = [pc |-> "saving", model |-> d, target |-> d,
                  contents |-> GetContent(models[d]),
                  written |-> FALSE, trusted |-> ~models[d].trusted,
                  isTrusted |-> models[d].trusted]
    /\ saveHist' = [saveHist EXCEPT !.result = "pending"]
    /\ UNCHANGED <<models, coordVars, cancelled, tierVars, diskVars, now, lastSaved,
                   loadVars, tierHist, lastTrustedSave, issuedIds, serviceVars>>

\* saveAs(model, file) up to Promise.all: as save, with `file` as the target
SaveAsStart(d, file) ==
    /\ saving = NoSave
    /\ models[d] # NoModel /\ file # d /\ models[file] = NoModel
    /\ saving' = [pc |-> "savingAs", model |-> d, target |-> file,
                  contents |-> GetContent(models[d]),
                  written |-> FALSE, trusted |-> ~models[d].trusted,
                  isTrusted |-> models[d].trusted]
    /\ saveHist' = [saveHist EXCEPT !.result = "pending"]
    /\ UNCHANGED <<models, coordVars, cancelled, tierVars, diskVars, now, lastSaved,
                   loadVars, tierHist, lastTrustedSave, issuedIds, serviceVars>>

\* save and saveAs that swallow a failure of the file write
SaveWriteFile_FailureSwallowed(ok) ==
    /\ saving.pc \in {"saving", "savingAs"} /\ ~saving.written
    /\ IF ok
       THEN /\ fileContent' = [fileContent EXCEPT ![saving.target] = saving.contents]
            /\ fileMtime' = [fileMtime EXCEPT ![saving.target] = now]
       ELSE UNCHANGED <<fileContent, fileMtime>>
    /\ saving' = [saving EXCEPT !.written = TRUE]
    /\ saveHist' = saveHist
    /\ UNCHANGED <<models, coordVars, cancelled, tierVars, trustedSet, now, lastSaved,
                   loadVars, tierHist, lastTrustedSave, issuedIds, serviceVars>>

\* fileSystem.writeFile(fsPath, contents) settles; a failure rejects the call
SaveWriteFile(ok) ==
    /\ saving.pc \in {"saving", "savingAs"} /\ ~saving.written
    /\ IF ok
       THEN /\ fileContent' = [fileContent EXCEPT ![saving.target] = saving.contents]
            /\ fileMtime' = [fileMtime EXCEPT ![saving.target] = now]
            /\ saving' = [saving EXCEPT !.written = TRUE]
       ELSE /\ saving' = NoSave
            /\ UNCHANGED <<fileContent, fileMtime>>
    /\ saveHist' = IF ok THEN saveHist ELSE [saveHist EXCEPT !.result = "rejected"]
    /\ UNCHANGED <<models, coordVars, cancelled, tierVars, trustedSet, now, lastSaved,
                   loadVars, tierHist, lastTrustedSave, issuedIds, serviceVars>>

\* save and saveAs that do not register the saved content with the trust service
SaveTrust_NoRegister(ok) ==
    /\ saving.pc \in {"saving", "savingAs"} /\ ~saving.trusted
    /\ saving' = IF ok THEN [saving EXCEPT !.trusted = TRUE] ELSE NoSave
    /\ saveHist' = IF ok THEN saveHist ELSE [saveHist EXCEPT !.result = "rejected"]
    /\ UNCHANGED <<models, coordVars, cancelled, tierVars, diskVars, now,
                   lastSaved, loadVars, tierHist, lastTrustedSave, issuedIds,
                   serviceVars>>

\* trustService.trustNotebook(identity of the target, contents) settles
SaveTrust(ok) ==
    /\ saving.pc \in {"saving", "savingAs"} /\ ~saving.trusted
    /\ IF ok
       THEN /\ trustedSet' = trustedSet \cup {<<saving.target, saving.contents>>}
            /\ saving' = [saving EXCEPT !.trusted = TRUE]
       ELSE /\ saving' = NoSave
            /\ UNCHANGED trustedSet
    /\ saveHist' = IF ok THEN saveHist ELSE [saveHist EXCEPT !.result = "rejected"]
    /\ UNCHANGED <<models, coordVars, cancelled, tierVars, fileContent, fileMtime, now,
                   lastSaved, loadVars, tierHist, lastTrustedSave, issuedIds,
                   serviceVars>>

\* save after Promise.all: model.update({kind: 'save', newDirty: false})
SaveFinish ==
    /\ saving.pc = "saving" /\ saving.written /\ saving.trusted
    /\ models' = [models EXCEPT ![saving.model] = [@ EXCEPT !.dirty = FALSE]]
    /\ lastSaved' = IF GetContent(models[saving.model]) = saving.contents
                    THEN saving.contents ELSE Undefined
    /\ lastTrustedSave' = IF saving.isTrusted
                          THEN [file |-> saving.target, contents |-> saving.contents]
                          ELSE lastTrustedSave
    /\ saving' = NoSave
    /\ saveHist' = [saveHist EXCEPT !.result = "resolved"]
    /\ UNCHANGED <<coordVars, cancelled, tierVars, diskVars, now, loadVars, tierHist,
                   issuedIds, serviceVars>>

\* saveAs that reads the old identity for its notification after the update
SaveAsFinish_OldReadAfterUpdate ==
    /\ saving.pc = "savingAs" /\ saving.written /\ saving.trusted
    /\ models' = [models EXCEPT
           ![saving.model] = NoModel,
           ![saving.target] = [models[saving.model] EXCEPT !.dirty = FALSE,
                                                           !.file = saving.target]]
    /\ lastSaved' = Undefined
    /\ lastTrustedSave' = IF saving.isTrusted
                          THEN [file |-> saving.target, contents |-> saving.contents]
                          ELSE lastTrustedSave
    /\ saving' = NoSave
    /\ saveHist' = [result |-> "resolved",
                    savedAs |-> Append(saveHist.savedAs,
                                       [new |-> saving.target, old |-> saving.target])]
    /\ UNCHANGED <<coordVars, cancelled, tierVars, diskVars, now, loadVars, tierHist,
                   issuedIds, serviceVars>>

\* saveAs after Promise.all: model.update({kind: 'saveAs', newDirty: false,
\* target: file}); the model is from now on the model of the target identity
SaveAsFinish ==
    /\ saving.pc = "savingAs" /\ saving.written /\ saving.trusted
    /\ models' = [models EXCEPT
           ![saving.model] = NoModel,
           ![saving.target] = [models[saving.model] EXCEPT !.dirty = FALSE,
                                                           !.file = saving.target]]
    /\ lastSaved' = Undefined
    /\ lastTrustedSave' = IF saving.isTrusted
                          THEN [file |-> saving.target, contents |-> saving.contents]
                          ELSE lastTrustedSave
    /\ saving' = NoSave
    /\ saveHist' = [result |-> "resolved",
                    savedAs |-> Append(saveHist.savedAs,
                                       [new |-> saving.target, old |-> saving.model])]
    /\ UNCHANGED <<coordVars, cancelled, tierVars, diskVars, now, loadVars, tierHist,
                   issuedIds, serviceVars>>

(***************************************************************************)
(* The loader over the states the stores can be in.                        *)
(***************************************************************************)
\* Contents by origin, so that a loaded model shows which store it came from
DiskTexts == {NB(<<>>, 0), NB(<<"diskCell">>, 0), NB(<<"diskCell">>, 2),
              NoCellsText, GarbageText, EmptyText}
PossibleTexts == {Undefined, NB(<<"possibleCell">>, 0)}

Times == 1..MaxTime

InitLoad ==
    /\ InitCoordinator
    /\ InitLoader
    /\ models = [d \in Docs |-> NoModel]
    /\ now = MaxTime
    /\ \E text \in DiskTexts \cup {Undefined} :
           fileContent = [d \in Docs |-> IF d = "a" THEN text ELSE Undefined]
    /\ \E t \in Times :
           fileMtime = [d \in Docs |-> IF d = "a" /\ fileContent[d] # Undefined
                                       THEN t ELSE 0]
    /\ \E e1 \in {Absent, GarbageFile} \cup {Envelope(HotExitText, t) : t \in Times},
          e2 \in {Absent, Envelope(HotExitText, MaxTime)} :
           hotExit = [p \in HotExitPaths |->
               IF p = GetHashedFileName(GetStaticStorageKey("a")) THEN e1
               ELSE IF p = GetHashedFileName(GenerateBackupId("a")) THEN e2
               ELSE Absent]
    /\ \E g \in {Absent, BareString(GlobalText)}
                   \cup {Envelope(GlobalText, t) : t \in Times} :
           globalStorage = [k \in Keys |->
               IF k = GetStaticStorageKey("a") THEN g ELSE Absent]
    /\ \E l \in {Undefined, LocalText, NoCellsText} :
           localStorage = [k \in Keys |->
               IF k = GetStaticStorageKey("a") THEN l ELSE Undefined]
    /\ transferFlag = FALSE
    /\ trustedSet \in {{}, {<<"a", fileContent["a"]>>},
                        {<<"a", text>> : text \in {HotExitText, GlobalText, LocalText}}}

\* One load call, from every state of the stores
NextLoad ==
    \E possibleContents \in PossibleTexts, options \in Options, fail \in FailKinds :
        loadResult = NoLoad /\ Load("a", possibleContents, options, fail)

SpecLoad == InitLoad /\ [][NextLoad]_vars

(***************************************************************************)
(* Loads of an untitled document and of a document on disk.                *)
(***************************************************************************)
InitUntitled ==
    /\ InitCoordinator
    /\ InitLoader
    /\ models = [d \in Docs |-> NoModel]
    /\ now = MaxTime
    /\ \E ta \in {Undefined, NB(<<"diskCell">>, 0)}, tu \in {Undefined, NB(<<"diskCell">>, 2)} :
           fileContent = [d \in Docs |-> IF d = "a" THEN ta
                                         ELSE IF d = "u" THEN tu ELSE Undefined]
    /\ fileMtime = [d \in Docs |-> IF fileContent[d] # Undefined THEN 1 ELSE 0]
    /\ \E ea \in {Absent, Envelope(HotExitText, MaxTime)},
          eu \in {Absent, Envelope(HotExitText, MaxTime)} :
           hotExit = [p \in HotExitPaths |->
               IF p = GetHashedFileName(GetStaticStorageKey("a")) THEN ea
               ELSE IF p = GetHashedFileName(GetStaticStorageKey("u")) THEN eu
               ELSE Absent]
    /\ globalStorage = [k \in Keys |-> Absent]
    /\ \E l \in {Undefined, LocalText} :
           localStorage = [k \in Keys |->
               IF k = GetStaticStorageKey("u") THEN l ELSE Undefined]
    /\ transferFlag = FALSE
    /\ trustedSet = {}

\* One load call, for the untitled document or for the document on disk, with
\* and without content supplied by the caller
NextUntitled ==
    \E file \in {"a", "u"}, possibleContents \in PossibleTexts,
       options \in Options, fail \in FailKinds :
        loadResult = NoLoad /\ Load(file, possibleContents, options, fail)

SpecUntitled == InitUntitled /\ [][NextUntitled]_vars

(***************************************************************************)
(* revert of an open document, from the states the stores can be in.       *)
(***************************************************************************)
InitRevert ==
    /\ InitCoordinator
    /\ InitLoader
    /\ models = [d \in Docs |-> IF d \in {"a", "u"} THEN OpenedModel(d) ELSE NoModel]
    /\ now = MaxTime
    /\ \E text \in {Undefined, NB(<<"diskCell">>, 0), GarbageText} :
           fileContent = [d \in Docs |-> IF d = "a" THEN text ELSE Undefined]
    /\ fileMtime = [d \in Docs |-> IF fileContent[d] # Undefined THEN 1 ELSE 0]
    /\ \E ea \in {Absent, GarbageFile, Envelope(HotExitText, MaxTime)},
          eu \in {Absent, Envelope(HotExitText, MaxTime)} :
           hotExit = [p \in HotExitPaths |->
               IF p = GetHashedFileName(GetStaticStorageKey("a")) THEN ea
               ELSE IF p = GetHashedFileName(GetStaticStorageKey("u")) THEN eu
               ELSE Absent]
    /\ \E g \in {Absent, Envelope(GlobalText, MaxTime)} :
           globalStorage = [k \in Keys |->
               IF k = GetStaticStorageKey("a") THEN g ELSE Absent]
    /\ \E l \in {Undefined, LocalText} :
           localStorage = [k \in Keys |->
               IF k = GetStaticStorageKey("a") THEN l ELSE Undefined]
    /\ transferFlag = FALSE
    /\ trustedSet = {}

NextRevert ==
    \/ \E d \in {"a", "u"} : Edit(d)
    \/ \E d \in {"a", "u"}, fail \in FailKinds : Revert(d, fail)

SpecRevert == InitRevert /\ [][NextRevert]_vars

(***************************************************************************)
(* Loads against a trust service that trusts some contents.                *)
(***************************************************************************)
InitTrust ==
    /\ InitCoordinator
    /\ InitLoader
    /\ models = [d \in Docs |-> NoModel]
    /\ now = MaxTime
    /\ \E text \in {Undefined, EmptyText, NB(<<"diskCell">>, 0)} :
           fileContent = [d \in Docs |-> IF d = "a" THEN text ELSE Undefined]
    /\ fileMtime = [d \in Docs |-> IF fileContent[d] # Undefined THEN 1 ELSE 0]
    /\ \E ea \in {Absent, Envelope(HotExitText, MaxTime)},
          eu \in {Absent, Envelope(HotExitText, MaxTime)} :
           hotExit = [p \in HotExitPaths |->
               IF p = GetHashedFileName(GetStaticStorageKey("a")) THEN ea
               ELSE IF p = GetHashedFileName(GetStaticStorageKey("u")) THEN eu
               ELSE Absent]
    /\ globalStorage = [k \in Keys |-> Absent]
    /\ localStorage = [k \in Keys |-> Undefined]
    /\ transferFlag = FALSE
    /\ trustedSet \in {{},
                        {<<"a", NB(<<"diskCell">>, 0)>>, <<"a", EmptyText>>},
                        {<<d, HotExitText>> : d \in {"a", "u"}}}

\* One load call, for the untitled document or for the document on disk
NextTrust ==
    \E file \in {"a", "u"}, possibleContents \in PossibleTexts,
       options \in Options, fail \in FailKinds :
        loadResult = NoLoad /\ Load(file, possibleContents, options, fail)

SpecTrust == InitTrust /\ [][NextTrust]_vars

(***************************************************************************)
(* One document through load, edits, backups and save, with the clock.     *)
(***************************************************************************)
InitSave ==
    /\ InitCoordinator
    /\ InitStores
    /\ InitLoader
    /\ models = [d \in Docs |-> NoModel]
    /\ fileContent = [d \in Docs |-> IF d = "a" THEN NB(<<"diskCell">>, 0) ELSE Undefined]
    /\ fileMtime = [d \in Docs |-> IF d = "a" THEN 1 ELSE 0]
    /\ trustedSet = {<<"a", NB(<<"diskCell">>, 0)>>}
    /\ now = 1

NextSave ==
    \/ saving = NoSave /\ Load("a", Undefined, OptUndefined, "none")
    \/ Edit("a")
    \/ Tick
    \/ Backup("a", "t1", NoId)
    \/ \E c \in inflight : CreateDirectoryDone(c, TRUE)
    \/ \E c \in inflight : WriteFileDone(c, TRUE)
    \/ \E c \in inflight : BackupFinally(c)
    \/ SaveStart("a")
    \/ SaveWriteFile(TRUE)
    \/ SaveTrust(TRUE)
    \/ SaveFinish

SpecSave == InitSave /\ [][NextSave]_vars


(***************************************************************************)
(* Documents loaded, edited, backed up, saved, saved under another         *)
(* identity and loaded again, at one value of the clock.                   *)
(***************************************************************************)
InitReload ==
    /\ InitCoordinator
    /\ InitStores
    /\ InitLoader
    /\ models = [d \in Docs |-> NoModel]
    /\ \E text \in {NB(<<>>, 0), NB(<<"diskCell">>, 0)} :
           fileContent = [d \in Docs |-> IF d = "a" THEN text ELSE Undefined]
    /\ fileMtime = [d \in Docs |-> IF d = "a" THEN 1 ELSE 0]
    /\ trustedSet \in {{}, {<<"a", fileContent["a"]>>}}
    /\ now = 1

NextReload ==
    \/ \E d \in FileDocs, options \in {OptUndefined, OptBoolean(TRUE)} :
           /\ saving = NoSave /\ inflight = {} /\ fileContent[d] # Undefined
           /\ Load(d, Undefined, options, "none")
    \/ Edit("a")
    \/ ~backingUp /\ saving = NoSave /\ Backup("a", "t1", NoId)
    \/ \E c \in inflight : CreateDirectoryDone(c, TRUE)
    \/ \E c \in inflight : WriteFileDone(c, TRUE)
    \/ \E c \in inflight : BackupFinally(c)
    \/ inflight = {} /\ SaveStart("a")
    \/ inflight = {} /\ SaveAsStart("a", "b")
    \/ SaveWriteFile(TRUE)
    \/ SaveTrust(TRUE)
    \/ SaveFinish
    \/ SaveAsFinish

SpecReload == InitReload /\ [][NextReload]_vars

(***************************************************************************)
(* save and saveAs between two identities, with failing writes and failing *)
(* trust registrations.                                                    *)
(***************************************************************************)
NextNotify ==
    \/ /\ saving = NoSave /\ models = [d \in Docs |-> NoModel]
       /\ Load("a", Undefined, OptUndefined, "none")
    \/ \E d \in FileDocs : Edit(d)
    \/ \E d \in FileDocs : SaveStart(d)
    \/ \E d \in FileDocs, file \in FileDocs :
           Len(saveHist.savedAs) < MaxSavedAs /\ SaveAsStart(d, file)
    \/ \E ok \in BOOLEAN : SaveWriteFile(ok)
    \/ \E ok \in BOOLEAN : SaveTrust(ok)
    \/ SaveFinish
    \/ SaveAsFinish

SpecNotify == InitReload /\ [][NextNotify]_vars

(***************************************************************************)
(* Properties of the loader.                                               *)
(***************************************************************************)
\* This step is a load call; loadResult' holds its arguments and its outcome
IsLoad == nLoads' = nLoads + 1

\* The model loadContents builds from the text of the document file
BuiltFromDisk(model, file) ==
    /\ fileContent[file].kind \in {"nb", "empty"}
    /\ model.cells = IF fileContent[file].cells = <<>>
                     THEN <<CreateEmptyCell(<<"uuid", nLoads + 1>>)>>
                     ELSE Remapped(fileContent[file].cells)

\* The text the load hands to the parser: recovered dirty content, else the file's
ParsedByLoad(file, options) ==
    LET stored == GetStoredContents(file, LoadBackupId(file, options), "none").result
    IN  IF ~SkipDirtyContents(options) /\ Truthy(stored) THEN stored
        ELSE fileContent[file]

\* C6 (as stated): load never rejects.
C6_LoadNeverRejects == loadResult.status # "rejected"

\* C7 (as stated): a load whose on-disk content, or recovered dirty content, is
\* JSON without a cells key resolves with the trusted empty fallback model.
C7_NoCellsYieldsFallback ==
    [][IsLoad /\ loadResult'.fail = "none"
          /\ ParsedByLoad(loadResult'.file, loadResult'.options) = NoCellsText
          => /\ loadResult'.status = "resolved"
             /\ loadResult'.model = FallbackModel(loadResult'.file)]_vars

\* C8 (as stated): a load called with a backup id string recovers the non-stale
\* Backup Record stored under that id (dirty model with the record's content)
\* and does not delete the record.
C8_BackupIdLoadRecovers ==
    [][\A id \in BackupIds :
          LET file == loadResult'.file
              path == GetHashedFileName(id)
          IN  IsLoad /\ loadResult'.fail = "none" /\ loadResult'.options = OptString(id)
                /\ fileContent[file].kind = "nb"
                /\ hotExit[path].kind = "envelope"
                /\ hotExit[path].lastModifiedTimeMs >= fileMtime[file]
              => /\ loadResult'.status = "resolved"
                 /\ loadResult'.model.dirty
                 /\ loadResult'.model.cells = Remapped(hotExit[path].contents.cells)
                 /\ hotExit'[path] = hotExit[path]]_vars

\* The hot-exit file under the document's static key holds a record older than
\* the document file
StaleBackupStored(file) ==
    LET data == hotExit[GetHashedFileName(GetStaticStorageKey(file))]
    IN  /\ data.kind = "envelope" /\ data.lastModifiedTimeMs # 0
        /\ Scheme(file) = "file" /\ fileContent[file] # Undefined
        /\ fileMtime[file] > data.lastModifiedTimeMs

\* Neither legacy tier holds an entry under the document's static key
LegacyTiersEmpty(file) ==
    /\ globalStorage[GetStaticStorageKey(file)] = Absent
    /\ ~Truthy(localStorage[GetStaticStorageKey(file)])

\* C10 (as stated): with a stored backup older than the document file, the model
\* the next load returns is built from the on-disk content and is not dirty.
C10_StaleBackupLoadsFromDisk ==
    [][IsLoad /\ loadResult'.fail = "none" /\ StaleBackupStored(loadResult'.file)
          /\ fileContent[loadResult'.file].kind \in {"nb", "empty"}
          /\ loadResult'.status = "resolved"
          => /\ ~loadResult'.model.dirty
             /\ BuiltFromDisk(loadResult'.model, loadResult'.file)]_vars

\* C10 (amended): with a stored backup older than the document file, the next
\* load ignores the backup; when neither legacy tier holds an entry for the key,
\* the model the load returns is not dirty and is built from the on-disk content
\* (it is the empty fallback model when reading the file or hashing the key fails).
C10_StaleBackupIgnored ==
    [][IsLoad /\ StaleBackupStored(loadResult'.file) /\ LegacyTiersEmpty(loadResult'.file)
          /\ loadResult'.status = "resolved"
          => /\ ~loadResult'.model.dirty
             /\ IF loadResult'.fail \in {"readFile", "hash"}
                THEN loadResult'.model = FallbackModel(loadResult'.file)
                ELSE BuiltFromDisk(loadResult'.model, loadResult'.file)]_vars

\* C10 witness: a load without options has returned the clean model of the file
\* although a stale record lies under the document's key
C10_Witness ==
    /\ loadResult.status = "resolved" /\ loadResult.file = "a"
    /\ loadResult.options = OptUndefined /\ loadResult.fail = "none"
    /\ StaleBackupStored("a") /\ LegacyTiersEmpty("a")
    /\ ~loadResult.model.dirty
    /\ loadResult.model.cells = Remapped(<<"diskCell">>)

(***************************************************************************)
(* Properties of load, save, load.                                         *)
(***************************************************************************)
\* C9 (as stated): a load that follows a completed save, with no edit since the
\* save began, returns a model whose content is the saved content and which is
\* not dirty, whatever backups were requested before or during the save.
C9_SaveRoundTrip ==
    loadResult.saved # Undefined =>
        /\ loadResult.status = "resolved"
        /\ GetContent(loadResult.model) = loadResult.saved
        /\ ~loadResult.model.dirty

(***************************************************************************)
(* Properties of the storage tiers.                                        *)
(***************************************************************************)
\* C11 (as stated): a dirty-content query that directly follows a successful
\* deleteBackup of its key returns absent, whatever the tiers held.
C11_DeleteThenQueryAbsent ==
    \A q \in QueryIds :
        queries[q].afterDelete /\ queries[q].pc = "done" =>
            queries[q].result = Undefined

\* Tier i was read by the call and yielded content
Yields(r) == r # Unread /\ Truthy(r)

\* C12: a call reads tier 2 only after tier 1 yielded absent and tier 3 only
\* after tiers 1 and 2 yielded absent, and the value it returns is the content
\* of the first tier that yielded content (absent when none did): the content
\* of the hot-exit file, else of the global store, else of the workspace store.
C12_FirstTierWins ==
    \A q \in QueryIds :
        LET x == queries[q]
        IN  /\ x.r2 # Unread => x.r1 # Unread /\ ~Truthy(x.r1)
            /\ x.r3 # Unread => x.r2 # Unread /\ ~Truthy(x.r1) /\ ~Truthy(x.r2)
            /\ Yields(x.r1) => x.r1 = HotExitText
            /\ Yields(x.r2) => x.r2 = GlobalText
            /\ Yields(x.r3) => x.r3 = LocalText
            /\ x.pc = "done" =>
                   /\ x.r1 # Unread
                   /\ x.result = IF Yields(x.r1) THEN x.r1
                                 ELSE IF Yields(x.r2) THEN x.r2
                                 ELSE IF Yields(x.r3) THEN x.r3
                                 ELSE Undefined

\* C12 witness: a call has returned the content of the hot-exit file without
\* reading the global and workspace stores, which both hold an entry for its key
C12_Witness ==
    \E q \in QueryIds :
        /\ queries[q].pc = "done" /\ queries[q].result = HotExitText
        /\ queries[q].r2 = Unread /\ queries[q].r3 = Unread
        /\ globalStorage[queries[q].key] # Absent
        /\ localStorage[queries[q].key] = LocalText

\* C13 (as stated): the content of every entry the sweep removed from the global
\* store is in the hot-exit file of the same key.
C13_SweptEntriesTransferred ==
    \A e \in sweptEntries :
        hotExit[GetHashedFileName(e[1])].contents = e[2].contents

\* C14: when transferStorage runs directly after a run of transferStorage, it
\* removes no entry, leaves the three tiers as they were, and the flag stays true.
C14_SecondSweepIsNoOp ==
    [][lastCall.op = "transferStorage" /\ TransferStorageCall
          => /\ globalStorage' = globalStorage
             /\ sweptEntries' = sweptEntries
             /\ hotExit' = hotExit /\ localStorage' = localStorage
             /\ transferFlag /\ transferFlag']_vars

\* C14 witness: transferStorage has run twice in a row, the first run having
\* removed the entries of two documents
C14_Witness ==
    /\ lastCall.op = "transferStorage" /\ lastCall.again
    /\ {e[1] : e \in sweptEntries} = {GetStaticStorageKey(d) : d \in FileDocs}
    /\ transferFlag

\* C15: the step in which a call reads a workspace-store entry clears the
\* entry, and of the calls made for one key at most one is given the content of
\* the workspace store.
C15_LocalEntryReadOnce ==
    /\ [](\A k \in Keys :
             Cardinality({q \in QueryIds : queries[q].key = k /\ Yields(queries[q].r3)}) <= 1)
    /\ [][\A q \in QueryIds :
             ~Yields(queries[q].r3) /\ Yields(queries'[q].r3)
                 => localStorage'[queries[q].key] = Undefined]_vars

\* C15 witness: two interleaved calls for one key have both read the workspace
\* store, and only one of them was given its content
C15_Witness ==
    /\ queries[1].key = queries[2].key
    /\ queries[1].r3 = Undefined /\ queries[2].r3 = LocalText

(***************************************************************************)
(* Properties of the loaded model.                                         *)
(***************************************************************************)
\* C16 (as stated): every model that load returns, the fallback model returned
\* after a failure included, is constructed with at least one cell.
C16_LoadedModelHasCell ==
    loadResult.status = "resolved" => Len(loadResult.model.cells) >= 1

\* No tier holds content for the document under its static key
NoStoredContent(file) ==
    /\ hotExit[GetHashedFileName(GetStaticStorageKey(file))] = Absent
    /\ globalStorage[GetStaticStorageKey(file)] = Absent
    /\ localStorage[GetStaticStorageKey(file)] = Undefined

\* C17: a load of a document for which no tier holds content and whose file
\* holds a notebook without cells returns a model that is not dirty and has
\* exactly one cell, an empty code cell, whose identifier no earlier load
\* issued and no cell of an open model carries.
C17_EmptyLoadSynthesizesFreshCell ==
    [][IsLoad /\ NoStoredContent(loadResult'.file)
              /\ fileContent[loadResult'.file] = NB(<<>>, 0)
          => /\ loadResult'.status = "resolved"
             /\ ~loadResult'.model.dirty
             /\ Len(loadResult'.model.cells) = 1
             /\ loadResult'.model.cells[1].data = EmptyCodeCell
             /\ loadResult'.model.cells[1].id \notin issuedIds
             /\ \A d \in Docs : \A c \in Range(models[d].cells) :
                    c.id # loadResult'.model.cells[1].id]_vars

\* C17 witness: the document was loaded twice from a file without cells while
\* no tier held content, and the two synthesized cells have two identifiers
C17_Witness ==
    /\ nLoads = 2 /\ Cardinality(issuedIds) = 2
    /\ loadResult.options = OptUndefined /\ NoStoredContent(loadResult.file)
    /\ fileContent[loadResult.file] = NB(<<>>, 0)
    /\ loadResult.model.cells = <<CreateEmptyCell(<<"uuid", 2>>)>>

\* The content getStoredContents gives a load that does not skip dirty content
RecoveredBy(file, options, fail) ==
    IF SkipDirtyContents(options) THEN Undefined
    ELSE GetStoredContents(file, LoadBackupId(file, options), fail).result

\* The load read the file and got content from getStoredContents
DirtyContentRecovered(file, options, fail) ==
    /\ ~IsUntitledFile(file)
    /\ fileContent[file] # Undefined /\ fail \notin {"readFile", "hash"}
    /\ Truthy(RecoveredBy(file, options, fail))

\* C18: the model that load returns for a document with a file, when content
\* was recovered from the tiers, is dirty, has the cells of the recovered
\* content, and is trusted exactly when the trust service trusts the content of
\* the file on disk.
C18_RecoveredModelTrustFromDisk ==
    [][IsLoad /\ loadResult'.status = "resolved"
              /\ DirtyContentRecovered(loadResult'.file, loadResult'.options,
                                       loadResult'.fail)
          => LET rec == RecoveredBy(loadResult'.file, loadResult'.options,
                                    loadResult'.fail)
             IN  /\ loadResult'.model.dirty
                 /\ Len(rec.cells) > 0
                 /\ loadResult'.model.cells = Remapped(rec.cells)
                 /\ loadResult'.model.trusted
                        = IsNotebookTrusted(loadResult'.file,
                                            fileContent[loadResult'.file])]_vars

\* C18 witness: a load has returned a dirty model built from the hot-exit
\* record; the trust service trusts the recovered content and not the content
\* of the file, and the model is not trusted
C18_Witness ==
    /\ loadResult.status = "resolved" /\ loadResult.model.dirty
    /\ loadResult.model.cells = Remapped(HotExitText.cells)
    /\ IsNotebookTrusted(loadResult.file, HotExitText)
    /\ ~IsNotebookTrusted(loadResult.file, fileContent[loadResult.file])
    /\ ~loadResult.model.trusted

(***************************************************************************)
(* Properties of trust across save and load.                               *)
(***************************************************************************)
\* save or saveAs of a trusted model completes in this step
TrustedSaveCompletes ==
    /\ saving.isTrusted /\ saving' = NoSave
    /\ lastTrustedSave' = [file |-> saving.target, contents |-> saving.contents]

\* C19: when save or saveAs of a trusted model completes, the saved content is
\* registered as trusted for the target and the model stays trusted; and a load
\* of the target of the last such save, while its file holds the saved content,
\* returns a trusted model, whether or not a backup is recovered.
C19_TrustSurvivesSave ==
    [][/\ TrustedSaveCompletes
           => /\ <<saving.target, saving.contents>> \in trustedSet'
              /\ models'[saving.target].trusted
       /\ IsLoad /\ loadResult'.file = lastTrustedSave.file
                 /\ fileContent[loadResult'.file] = lastTrustedSave.contents
           => /\ loadResult'.status = "resolved"
              /\ loadResult'.model.trusted]_vars

\* C19 witness: a trusted model was edited, backed up and saved; the next load
\* of the document, its file unchanged, recovered the backup and is trusted
C19_Witness ==
    /\ loadResult.status = "resolved"
    /\ loadResult.file = lastTrustedSave.file
    /\ fileContent[loadResult.file] = lastTrustedSave.contents
    /\ UserCell \in Range(lastTrustedSave.contents.cells)
    /\ loadResult.model.dirty /\ loadResult.model.trusted
    /\ models[loadResult.file] = loadResult.model

(***************************************************************************)
(* Properties of cancellation.                                             *)
(***************************************************************************)
\* C20: a write cycle whose token was cancelled when it started has made no
\* I/O call, and one whose token was found cancelled after createDirectory has
\* made that call only; either leaves the hot-exit file as it was at its start,
\* and when it ends no failure is recorded and the call of backup that started
\* it is resolved.
C20_CancelledBackupDoesNoIO ==
    /\ [](\A c \in inflight :
             /\ c.cancelledAt = "start" => c.pc = "done" /\ c.ops = {}
             /\ c.cancelledAt = "write" => c.pc = "done" /\ c.ops = {"createDirectory"}
             /\ c.cancelledAt # "none" => hotExit[c.filePath] = c.before)
    /\ [][\A c \in inflight :
             c.cancelledAt # "none" /\ BackupFinally(c)
                 => /\ hotExit' = hotExit
                    /\ ioFailed' = ioFailed
                    /\ ~c.followUp => callResult' = "resolved"]_vars

\* C20 witness: backup was called with a token that was already cancelled,
\* while the hot-exit file held an older record; the cycle is done
C20_Witness ==
    \E c \in inflight :
        /\ c.cancelledAt = "start" /\ ~c.followUp /\ c.pc = "done"
        /\ callResult = "pending"
        /\ hotExit[c.filePath] # Absent /\ hotExit[c.filePath] # c.contents

(***************************************************************************)
(* Properties of writing and deleting the hot-exit file.                   *)
(***************************************************************************)
\* C21: a write cycle with content, its token not cancelled, calls
\* createDirectory, then writeFile and never deleteFile, and its successful
\* write leaves the envelope in the hot-exit file of its key; a call with no
\* content calls deleteFile, after which the file is absent unless the file
\* system failed; deleting a file that is not there resolves, logs nothing and
\* leaves the three tiers as they were.
C21_WriteOrDelete ==
    /\ [](\A c \in inflight :
             c.contents # Absent /\ c.cancelledAt = "none" =>
                 /\ c.contents.kind = "envelope"
                 /\ c.ops \in {{"createDirectory"}, {"createDirectory", "writeFile"}}
                 /\ c.pc = "writeFile" => c.ops = {"createDirectory", "writeFile"})
    /\ [][\A c \in inflight :
             WriteFileDone(c, TRUE) => hotExit'[c.filePath] = c.contents]_vars
    /\ [][\A id \in BackupIdsOf("a"), ok \in BOOLEAN :
             DeleteBackup("a", id, ok) =>
                 LET filePath == GetHashedFileName(StorageKey("a", id))
                 IN  /\ lastCall'.settled = "resolved"
                     /\ ok => hotExit'[filePath] = Absent
                     /\ \A p \in HotExitPaths \ {filePath} : hotExit'[p] = hotExit[p]
                     /\ hotExit[filePath] = Absent /\ ok =>
                            /\ lastCall'.ok
                            /\ UNCHANGED tierVars]_vars

\* C21 witness: a backup has written its envelope, and a deleteBackup of the
\* other key of the document, whose file does not exist, has resolved
C21_Witness ==
    /\ lastCall.op = "deleteBackup" /\ lastCall.settled = "resolved" /\ lastCall.ok
    /\ hotExit[GetHashedFileName(lastCall.key)] = Absent
    /\ \E p \in HotExitPaths : hotExit[p] # Absent
    /\ \E c \in inflight : c.pc = "done" /\ c.ops = {"createDirectory", "writeFile"}
                           /\ hotExit[c.filePath] = c.contents

(***************************************************************************)
(* Properties of the follow-up backup.                                     *)
(***************************************************************************)
\* The write cycle c takes a step: an I/O call of it settles, or it ends
CycleStep(c) ==
    \/ \E ok \in BOOLEAN : CreateDirectoryDone(c, ok)
    \/ \E ok \in BOOLEAN : WriteFileDone(c, ok)
    \/ BackupFinally(c)

\* C22: no call of backup is ever rejected; the call that started a cycle is
\* resolved when that cycle ends, before the follow-up makes an I/O call; and no
\* step of a follow-up cycle, failing or not, changes the completion of a call.
C22_FollowUpFailureLoggedOnly ==
    /\ [](callResult # "rejected")
    /\ [][\A c \in inflight :
             ~c.followUp /\ BackupFinally(c) => callResult' = "resolved"]_vars
    /\ [][\A c \in inflight :
             c.followUp /\ CycleStep(c) => callResult' = callResult]_vars

\* C22 witness: the follow-up cycle has ended after a failed I/O call, and the
\* call that queued its request is resolved
C22_Witness ==
    /\ callResult = "resolved" /\ ioFailed
    /\ \E c \in inflight :
           /\ c.followUp /\ c.pc = "done" /\ c.cancelledAt = "none"
           /\ hotExit[c.filePath] # c.contents

(***************************************************************************)
(* Properties of a load that skips dirty content.                          *)
(***************************************************************************)
\* The cells of the model loadContents builds from a notebook text
CellsBuiltFrom(text, model) ==
    IF text.cells = <<>>
    THEN Len(model.cells) = 1 /\ model.cells[1].data = EmptyCodeCell
    ELSE model.cells = Remapped(text.cells)

\* C23: a load that skips dirty content, when the file is read and the delete
\* does not fail, leaves no hot-exit file under the storage key of the call and
\* touches no other file; it leaves the global and the workspace store as they
\* were; the model it returns is not dirty and has the cells of the file on
\* disk; and tier 1 then yields nothing for that key.
C23_SkipDeletesBackupRecord ==
    [][\A f \in Docs, o \in Options :
          /\ IsLoad /\ loadResult'.file = f /\ loadResult'.options = o
          /\ SkipDirtyContents(o)
          /\ fileContent[f] # Undefined
          /\ loadResult'.fail \notin {"readFile", "hash", "deleteFile"}
          => LET key == StorageKey(f, LoadBackupId(f, o))
             IN  /\ hotExit'[GetHashedFileName(key)] = Absent
                 /\ \A p \in HotExitPaths \ {GetHashedFileName(key)} :
                        hotExit'[p] = hotExit[p]
                 /\ UNCHANGED <<globalStorage, localStorage, transferFlag>>
                 /\ loadResult'.status = "resolved" =>
                        /\ ~loadResult'.model.dirty
                        /\ CellsBuiltFrom(fileContent[f], loadResult'.model)
                 /\ (GetStoredContentsFromFile(f, key, "none") = Undefined)']_vars

\* C23 witness: a load with the skip flag has returned a model that is not
\* dirty, built from the file; no hot-exit file is left under its key, and the
\* global and the workspace store still hold their content for the document
C23_Witness ==
    /\ loadResult.status = "resolved" /\ loadResult.options = OptBoolean(TRUE)
    /\ loadResult.fail = "none"
    /\ ~loadResult.model.dirty
    /\ loadResult.model.cells = Remapped(<<"diskCell">>)
    /\ hotExit[GetHashedFileName(GetStaticStorageKey("a"))] = Absent
    /\ sweptEntries = {}
    /\ globalStorage[GetStaticStorageKey("a")] = Envelope(GlobalText, MaxTime)
    /\ localStorage[GetStaticStorageKey("a")] = LocalText

(***************************************************************************)
(* Properties of a failing read of tier 1.                                 *)
(***************************************************************************)
\* C24: when a load queries the tiers and the read of tier 1 fails with an
\* error other than not-found (unreadable file, text that is not JSON, failing
\* stat), the load goes on as if tier 1 held nothing: the global store is
\* looked up (and swept when it holds data for the key), the workspace store is
\* read and cleared when the global store yields nothing, the model is built
\* from the first of them that yields content, else from the file, and the load
\* rejects only when loadContents rejects that content.
C24_Tier1FailureYieldsAbsent ==
    [][\A f \in Docs, o \in Options :
          /\ IsLoad /\ loadResult'.file = f /\ loadResult'.options = o
          /\ ~SkipDirtyContents(o)
          /\ fileContent[f] # Undefined
          /\ loadResult'.fail \notin {"readFile", "hash"}
          /\ Tier1ReadFails(f, StorageKey(f, LoadBackupId(f, o)), loadResult'.fail)
          => LET key == StorageKey(f, LoadBackupId(f, o))
                 fail == loadResult'.fail
                 r2 == GetStoredContentsFromGlobalStorage(f, key, fail)
                 r3 == GetStoredContentsFromLocalStorage(key)
                 parsed == IF Truthy(r2) THEN r2 ELSE IF Truthy(r3) THEN r3
                           ELSE fileContent[f]
                 dirty == Truthy(r2) \/ Truthy(r3)
             IN  /\ UNCHANGED hotExit
                 /\ globalStorage' = IF GlobalDataFound(key)
                                     THEN TransferStorage(globalStorage)
                                     ELSE globalStorage
                 /\ transferFlag' = (transferFlag \/ GlobalDataFound(key))
                 /\ localStorage' = IF ~Truthy(r2)
                                    THEN [localStorage EXCEPT ![key] = Undefined]
                                    ELSE localStorage
                 /\ loadResult'.status =
                        LoadContents(f, parsed, dirty, fileContent[f], fail,
                                     <<"uuid", 0>>).status
                 /\ loadResult'.status = "resolved" =>
                        /\ loadResult'.model.dirty = dirty
                        /\ CellsBuiltFrom(parsed, loadResult'.model)]_vars

\* C24 witness: the hot-exit file of the document holds text that is not JSON;
\* a load has swept the stale entry of the global store and returned a dirty
\* model built from the content of the workspace store
C24_Witness ==
    /\ hotExit[GetHashedFileName(GetStaticStorageKey("a"))] = GarbageFile
    /\ loadResult.status = "resolved" /\ loadResult.options = OptUndefined
    /\ loadResult.fail = "none"
    /\ loadResult.model.dirty
    /\ loadResult.model.cells = Remapped(LocalText.cells)
    /\ sweptEntries # {}
    /\ localStorage[GetStaticStorageKey("a")] = Undefined

(***************************************************************************)
(* Properties of the lookup in the global store.                           *)
(***************************************************************************)
\* C25: when a call, tier 1 having yielded nothing, looks up the global store
\* and finds an entry under its key, the sweep runs in that step, before the
\* call returns: the flag is set and no entry with the key prefix is left; and
\* when the entry is an envelope with content that is not older than the file,
\* the call returns that content.
C25_SweepBeforeReturn ==
    [][\A q \in QueryIds :
          QueryGlobal(q) /\ globalStorage[queries[q].key] # Absent
          => LET key == queries[q].key
                 data == globalStorage[key]
             IN  /\ ~Truthy(queries[q].r1) /\ queries[q].r1 # Unread
                 /\ queries[q].pc # "done"
                 /\ transferFlag'
                 /\ \A k \in Keys : k[1] = KeyPrefix => globalStorage'[k] = Absent
                 /\ <<key, data>> \in sweptEntries'
                 /\ data.kind = "envelope" /\ Truthy(data.contents)
                        /\ ~(ChecksMtime(queries[q].file, data)
                                /\ IsStale(queries[q].file, data))
                    => /\ queries'[q].pc = "done"
                       /\ queries'[q].result = data.contents]_vars

\* C25 witness: a call has returned the content of the global-store entry of
\* its key, and the entry is no longer in the store
C25_Witness ==
    \E q \in QueryIds :
        /\ queries[q].pc = "done" /\ queries[q].result = GlobalText
        /\ queries[q].r2 = GlobalText
        /\ globalStorage[queries[q].key] = Absent
        /\ <<queries[q].key, Envelope(GlobalText, MaxTime)>> \in sweptEntries
        /\ transferFlag

(***************************************************************************)
(* Properties of save and saveAs.                                          *)
(***************************************************************************)
\* C26: a saved-as notification is fired only by the step that completes a
\* saveAs call, and that step fires exactly one: the file of the target then
\* holds the saved content, the content is registered as trusted when the model
\* was trusted, the model has become the clean model of the target, and the
\* notification carries the identity the model had when saveAs was called as
\* old and the target as new.
C26_OneSavedAsPerSaveAs ==
    [][/\ saveHist'.savedAs # saveHist.savedAs =>
              /\ saving.pc = "savingAs" /\ saving.written /\ saving.trusted
              /\ saving' = NoSave /\ saveHist'.result = "resolved"
              /\ fileContent[saving.target] = saving.contents
              /\ saving.isTrusted => <<saving.target, saving.contents>> \in trustedSet
              /\ models'[saving.target].file = saving.target
              /\ ~models'[saving.target].dirty
              /\ models[saving.model].file = saving.model
              /\ saveHist'.savedAs =
                     Append(saveHist.savedAs,
                            [new |-> saving.target, old |-> saving.model])
       /\ SaveAsFinish => Len(saveHist'.savedAs) = Len(saveHist.savedAs) + 1]_vars

\* C26 witness: two saveAs calls have completed, from a to b and back, and a
\* third has failed; two notifications were fired
C26_Witness ==
    /\ saveHist.savedAs = <<[new |-> "b", old |-> "a"], [new |-> "a", old |-> "b"]>>
    /\ saveHist.result = "rejected"
    /\ saving = NoSave

\* C27: a save or saveAs whose file write or trust registration fails rejects,
\* leaves the model as it was and fires no saved-as notification; a call
\* resolves only with the target file written (and the content registered when
\* the model was trusted), and the step that resolves it leaves the model clean.
C27_FailedSaveChangesNothing ==
    /\ [][(SaveWriteFile(FALSE) \/ SaveTrust(FALSE)) =>
              /\ saveHist.result = "pending" /\ saveHist'.result = "rejected"
              /\ saving' = NoSave
              /\ models' = models
              /\ saveHist'.savedAs = saveHist.savedAs]_vars
    /\ [][saveHist.result = "pending" /\ saveHist'.result = "rejected" =>
              /\ models' = models
              /\ saveHist'.savedAs = saveHist.savedAs]_vars
    /\ [][saveHist.result = "pending" /\ saveHist'.result = "resolved" =>
              /\ fileContent[saving.target] = saving.contents
              /\ saving.isTrusted => <<saving.target, saving.contents>> \in trustedSet
              /\ ~models'[saving.target].dirty
              /\ saving' = NoSave]_vars

\* C27 witness: a saveAs from a to b has resolved and left the model clean, the
\* model was edited, and a save of it was then rejected: the model is still
\* dirty and the one notification is that of the saveAs
C27_Witness ==
    /\ saveHist.result = "rejected"
    /\ saveHist.savedAs = <<[new |-> "b", old |-> "a"]>>
    /\ saving = NoSave
    /\ models["b"] # NoModel
    /\ models["b"].dirty

(***************************************************************************)
(* Properties of the on-disk content a load starts from.                   *)
(***************************************************************************)
\* C28: a load of an untitled identity is the same whether or not readFile
\* would fail, builds a model that is not dirty from the cells of the content
\* the caller supplied, and never yields a cell of the file at the identity's
\* path; a load of any other identity is the same whatever content the caller
\* supplies, and builds a model that is not dirty from the cells of the file.
C28_UntitledUsesPossibleContents ==
    /\ [](\A pc \in PossibleTexts, o \in Options :
             /\ LoadFromFile("u", pc, o, "readFile", <<"uuid", nLoads + 1>>)
                    = LoadFromFile("u", pc, o, "none", <<"uuid", nLoads + 1>>)
             /\ \A f \in FileDocs, fail \in FailKinds :
                    LoadFromFile(f, pc, o, fail, <<"uuid", nLoads + 1>>)
                        = LoadFromFile(f, Undefined, o, fail, <<"uuid", nLoads + 1>>))
    /\ [][\A pc \in PossibleTexts :
              /\ Load("u", pc, loadResult'.options, loadResult'.fail)
              /\ loadResult'.status = "resolved"
              => /\ \A i \in 1..Len(loadResult'.model.cells) :
                        loadResult'.model.cells[i].data # "diskCell"
                 /\ (~loadResult'.model.dirty /\ pc.kind = "nb"
                        /\ loadResult'.fail # "hash")
                    => loadResult'.model.cells = Remapped(pc.cells)]_vars
    /\ [][\A f \in FileDocs, pc \in PossibleTexts :
              /\ Load(f, pc, loadResult'.options, loadResult'.fail)
              /\ loadResult'.status = "resolved"
              => /\ \A i \in 1..Len(loadResult'.model.cells) :
                        loadResult'.model.cells[i].data # "possibleCell"
                 /\ (~loadResult'.model.dirty
                        /\ loadResult'.fail \notin {"hash", "readFile"})
                    => loadResult'.model.cells = Remapped(fileContent[f].cells)]_vars

\* C28 witness: the untitled document was loaded with content supplied by the
\* caller while a file with other content sat at its path and readFile would
\* have failed: the model holds the supplied cell
C28_Witness ==
    /\ loadResult.status = "resolved" /\ loadResult.file = "u"
    /\ loadResult.fail = "readFile"
    /\ fileContent["u"] = NB(<<"diskCell">>, 2)
    /\ ~loadResult.model.dirty
    /\ loadResult.model.cells = Remapped(<<"possibleCell">>)

(***************************************************************************)
(* Progress of the backup coordinator.                                     *)
(***************************************************************************)
\* C29: the step that ends a write cycle, whether the cycle wrote its content,
\* was cancelled or failed, starts the pending request if there is one and
\* clears the in-flight flag otherwise, and resolves the backup call that
\* started the cycle; and when every I/O call terminates, a coordinator that
\* is writing eventually is idle with no pending request.
C29_CoordinatorNeverWedges ==
    /\ [][\A c \in inflight :
              c.pc = "done" /\ c \notin inflight' =>
                  /\ backupRequested' = NoRequest
                  /\ IF backupRequested # NoRequest
                     THEN /\ backingUp'
                          /\ \E f \in inflight' :
                                 /\ f.followUp
                                 /\ f.model = backupRequested.model
                                 /\ f.token = backupRequested.cancellation
                     ELSE ~backingUp' /\ inflight' = {}
                  /\ ~c.followUp /\ callResult = "pending" =>
                         callResult' = "resolved"]_vars
    /\ [](callResult # "rejected")
    /\ (backingUp ~> Quiescent)

\* C29 witness: a cycle one of whose I/O calls failed and a cycle whose token
\* was cancelled have ended, the request that was pending meanwhile has been
\* written by its follow-up cycle, and the coordinator is idle with no pending
\* request
C29_Witness ==
    /\ Quiescent
    /\ ioFailed
    /\ cancelled # {}
    /\ callResult = "resolved"
    /\ Len(models["a"].cells) = 2
    /\ hotExit[GetHashedFileName(GetStaticStorageKey("a"))].contents
           = GetContent(models["a"])

(***************************************************************************)
(* deleteBackup against the backup coordinator.                            *)
(***************************************************************************)
\* C30 (as stated): once deleteBackup for a key has completed without a
\* file-system failure, and for as long as no backup has been requested since,
\* the hot-exit file of that key is absent.
C30_DeleteBackupStaysEffective ==
    lastCall.op = "deleteBackup" /\ lastCall.ok =>
        hotExit[GetHashedFileName(lastCall.key)] = Absent

(***************************************************************************)
(* The oldest format of the global store.                                  *)
(***************************************************************************)
\* C31 (as stated): when a call, tier 1 having yielded nothing, finds a bare
\* string under its key in the global store, the lookup in the global store
\* yields that string and the call returns it as the dirty content.
C31_BareStringRecovered ==
    [][\A q \in QueryIds :
          QueryGlobal(q) /\ globalStorage[queries[q].key].kind = "string"
          => /\ queries'[q].r2 = globalStorage[queries[q].key].contents
             /\ queries'[q].pc = "done"
             /\ queries'[q].result = globalStorage[queries[q].key].contents]_vars

\* transferStorage runs in this step: called on its own, or by a lookup in the
\* global store that finds an entry under its key
SweepRuns ==
    \/ TransferStorageCall
    \/ \E q \in QueryIds : QueryGlobal(q) /\ GlobalDataFound(queries[q].key)

\* C32: a step in which the sweep runs sets the flag and removes from the
\* global store the entries whose key starts with the key prefix, those of
\* other documents included, and no other entry; it leaves the hot-exit files
\* and the workspace store as they were; and no other step changes the global
\* store or the flag.
C32_SweepRemovesPrefixedEntriesOnly ==
    /\ [][SweepRuns =>
              /\ transferFlag'
              /\ \A k \in Keys :
                     globalStorage'[k] = IF k[1] = KeyPrefix THEN Absent
                                         ELSE globalStorage[k]
              /\ hotExit' = hotExit
              /\ localStorage' = localStorage]_vars
    /\ [][globalStorage' # globalStorage \/ transferFlag' # transferFlag
              => SweepRuns]_vars

\* C32 witness: a call for document a has run the sweep: the entries of a and
\* of b are gone, the entry keyed by the backup id, the hot-exit file of b and
\* the workspace-store entries are still there
C32_Witness ==
    /\ transferFlag
    /\ queries[1].pc = "done" /\ queries[1].key = GetStaticStorageKey("a")
    /\ queries[1].r2 = GlobalText
    /\ globalStorage[GetStaticStorageKey("a")] = Absent
    /\ globalStorage[GetStaticStorageKey("b")] = Absent
    /\ <<GetStaticStorageKey("b"), Envelope(GlobalText, MaxTime)>> \in sweptEntries
    /\ globalStorage[GenerateBackupId("a")] = Envelope(GlobalText, MaxTime)
    /\ hotExit[GetHashedFileName(GetStaticStorageKey("b"))] # Absent
    /\ localStorage[GetStaticStorageKey("a")] = LocalText
    /\ localStorage[GetStaticStorageKey("b")] = LocalText

(***************************************************************************)
(* A load whose document file cannot be read.                              *)
(***************************************************************************)
\* C33: a load of an identity that is not untitled, when the read of the
\* document file fails, resolves with the fallback model (trusted, not dirty,
\* no cells) and leaves the hot-exit files, the global store, the flag and the
\* workspace store as they were.
C33_FailedReadTouchesNoTier ==
    [][/\ IsLoad
       /\ ~IsUntitledFile(loadResult'.file)
       /\ loadResult'.fail = "readFile" \/ fileContent[loadResult'.file] = Undefined
       => /\ loadResult'.status = "resolved"
          /\ loadResult'.model = FallbackModel(loadResult'.file)
          /\ loadResult'.model.trusted /\ ~loadResult'.model.dirty
          /\ loadResult'.model.cells = <<>>
          /\ UNCHANGED <<hotExit, globalStorage, transferFlag, localStorage>>]_vars

\* C33 witness: a load asked to skip dirty content could not read the document
\* file and returned the fallback model; the hot-exit file, the global-store
\* entry and the workspace-store entry of the document are still there
C33_Witness ==
    /\ loadResult.status = "resolved" /\ loadResult.file = "a"
    /\ loadResult.fail = "readFile" /\ loadResult.options = OptBoolean(TRUE)
    /\ loadResult.model = FallbackModel("a")
    /\ hotExit[GetHashedFileName(GetStaticStorageKey("a"))].kind = "envelope"
    /\ globalStorage[GetStaticStorageKey("a")] # Absent
    /\ localStorage[GetStaticStorageKey("a")] = LocalText

C35_CellsRemappedInOrder ==
    /\ [][IsLoad /\ loadResult'.status = "resolved" /\ loadResult'.fail = "none" =>
              LET text == ParsedByLoad(loadResult'.file, loadResult'.options)
                  cells == loadResult'.model.cells
              IN  text.kind = "nb" /\ text.cells # <<>> =>
                      /\ Len(cells) = Len(text.cells)
                      /\ \A i \in 1..Len(cells) :
                             /\ cells[i].id = <<"NotebookImport", i - 1>>
                             /\ cells[i].state = "finished"
                             /\ cells[i].data = text.cells[i]]_vars
    /\ [](loadResult.status = "resolved" =>
             \A i, j \in 1..Len(loadResult.model.cells) :
                 i # j => loadResult.model.cells[i].id # loadResult.model.cells[j].id)

\* C35 witness: a document saved with two cells was loaded again: the model has
\* the two cells in the order of the file, numbered 0 and 1
C35_Witness ==
    /\ loadResult.status = "resolved"
    /\ Len(loadResult.model.cells) = 2
    /\ loadResult.model.cells[1].id = <<"NotebookImport", 0>>
    /\ loadResult.model.cells[2].id = <<"NotebookImport", 1>>
    /\ loadResult.model.cells[1].data = EmptyCodeCell
    /\ loadResult.model.cells[2].data = UserCell

(***************************************************************************)
(* The trust flag of a loaded model.                                       *)
(***************************************************************************)
\* C36: the model a load returns for an untitled identity, and the fallback
\* model, which has no content, are trusted, and a load for an untitled
\* identity is the same whether or not the trust service would fail; the
\* model of every other load is trusted exactly when the trust service trusts
\* the content of the document file under the identity.
C36_TrustFlagOfLoadedModel ==
    /\ [][IsLoad /\ loadResult'.status = "resolved" =>
              LET f == loadResult'.file
                  model == loadResult'.model
              IN  IF IsUntitledFile(f) \/ model = FallbackModel(f)
                  THEN model.trusted
                  ELSE model.trusted = IsNotebookTrusted(f, fileContent[f])]_vars
    /\ [](\A pc \in PossibleTexts, o \in Options :
             LoadFromFile("u", pc, o, "trust", <<"uuid", nLoads + 1>>)
                 = LoadFromFile("u", pc, o, "none", <<"uuid", nLoads + 1>>))

\* C36 witness: the untitled document was loaded from recovered dirty content
\* that the trust service does not trust, and the model is trusted
C36_Witness ==
    /\ loadResult.status = "resolved" /\ loadResult.file = "u"
    /\ loadResult.model.dirty
    /\ loadResult.model.cells = Remapped(HotExitText.cells)
    /\ loadResult.model.trusted
    /\ trustedSet = {<<"a", NB(<<"diskCell">>, 0)>>, <<"a", EmptyText>>}

(***************************************************************************)
(* TestResultsService.updateResults.                                       *)
(***************************************************************************)
\* The loop over the children in updateTestItem: the counts and the two flags
\* after the children in `children` have been visited, starting from acc
RECURSIVE VisitChildren(_, _, _)
VisitChildren(t, children, acc) ==
    IF children = <<>> THEN acc
    ELSE LET child == t[Head(children)]
             ran == child.passed \in {"true", "false"}
             next ==
                 IF GetTestType(Head(children)) = "testFunction"
                 THEN [functionsPassed |-> acc.functionsPassed
                                              + (IF child.passed = "true" THEN 1 ELSE 0),
                       functionsFailed |-> acc.functionsFailed
                                              + (IF child.passed = "false" THEN 1 ELSE 0),
                       functionsDidNotRun |-> acc.functionsDidNotRun
                                              + (IF ran THEN 0 ELSE 1),
                       noChildrenRan |-> acc.noChildrenRan /\ ~ran,
                       allChildrenPassed |-> acc.allChildrenPassed
                                              /\ child.passed # "false"]
                 ELSE [functionsPassed |-> acc.functionsPassed + child.functionsPassed,
                       functionsFailed |-> acc.functionsFailed + child.functionsFailed,
                       functionsDidNotRun |-> acc.functionsDidNotRun
                                                 + child.functionsDidNotRun,
                       noChildrenRan |-> acc.noChildrenRan /\ ~ran,
                       allChildrenPassed |-> acc.allChildrenPassed
                                              /\ child.passed # "false"]
         IN  VisitChildren(t, Tail(children), next)

\* The node as updateTestItem leaves it, given the counts and flags of the loop
Summarized(acc) ==
    [passed |-> IF acc.noChildrenRan THEN Unset
                ELSE IF acc.allChildrenPassed THEN "true" ELSE "false",
     status |-> IF acc.noChildrenRan THEN "Unknown"
                ELSE IF acc.allChildrenPassed THEN "Pass" ELSE "Fail",
     functionsPassed |-> acc.functionsPassed,
     functionsFailed |-> acc.functionsFailed,
     functionsDidNotRun |-> acc.functionsDidNotRun]

\* updateTestItem that takes the result of a node from its test functions only
UpdateTestItem_FunctionsOnly(t, test) ==
    IF GetTestType(test) = "testFunction" THEN t[test]
    ELSE LET acc == VisitChildren(t, GetChildren(test),
                        [functionsPassed |-> 0, functionsFailed |-> 0,
                         functionsDidNotRun |-> 0,
                         noChildrenRan |-> TRUE, allChildrenPassed |-> TRUE])
         IN  Summarized([acc EXCEPT
                 !.noChildrenRan = acc.functionsPassed + acc.functionsFailed = 0,
                 !.allChildrenPassed = \A i \in 1..Len(GetChildren(test)) :
                     GetTestType(GetChildren(test)[i]) = "testFunction"
                         => t[GetChildren(test)[i]].passed # "false"])

\* updateTestItem(test): the node afterwards, in the tree t
UpdateTestItem(t, test) ==
    IF GetTestType(test) = "testFunction" THEN t[test]
    ELSE Summarized(VisitChildren(t, GetChildren(test),
                        [functionsPassed |-> 0, functionsFailed |-> 0,
                         functionsDidNotRun |-> 0,
                         noChildrenRan |-> TRUE, allChildrenPassed |-> TRUE]))

\* updateResults(tests) up to the first loop: the root folders are queued
UpdateResultsStart ==
    /\ updating = "idle"
    /\ testQueue' = RootTestFolders
    /\ testStack' = <<>>
    /\ updated' = <<>>
    /\ updating' = IF RootTestFolders = <<>> THEN "done" ELSE "queue"
    /\ UNCHANGED <<tests, storageVars, jupyterVars>>

\* One pass of the first loop: shift an item, push it, queue its children
QueueStep ==
    /\ updating = "queue" /\ testQueue # <<>>
    /\ LET item == Head(testQueue)
           queue == Tail(testQueue) \o GetChildren(item)
       IN  /\ testStack' = Append(testStack, item)
           /\ testQueue' = queue
           /\ updating' = IF queue = <<>> THEN "stack" ELSE "queue"
    /\ UNCHANGED <<tests, updated, storageVars, jupyterVars>>

\* A second loop that takes the items from the bottom of the stack
StackStep_TopDown ==
    /\ updating = "stack" /\ testStack # <<>>
    /\ LET item == Head(testStack)
           stack == Tail(testStack)
       IN  /\ tests' = [tests EXCEPT ![item] = UpdateTestItem(tests, item)]
           /\ testStack' = stack
           /\ updated' = Append(updated, item)
           /\ updating' = IF stack = <<>> THEN "done" ELSE "stack"
    /\ UNCHANGED <<testQueue, storageVars, jupyterVars>>

\* One pass of the second loop: pop an item and update it
StackStep ==
    /\ updating = "stack" /\ testStack # <<>>
    /\ LET item == testStack[Len(testStack)]
           stack == SubSeq(testStack, 1, Len(testStack) - 1)
       IN  /\ tests' = [tests EXCEPT ![item] = UpdateTestItem(tests, item)]
           /\ testStack' = stack
           /\ updated' = Append(updated, item)
           /\ updating' = IF stack = <<>> THEN "done" ELSE "stack"
    /\ UNCHANGED <<testQueue, storageVars, jupyterVars>>

\* The storage at construction, with one document open
InitStorageIdle ==
    /\ InitCoordinator
    /\ InitStores
    /\ saving = NoSave /\ lastSaved = Undefined
    /\ loadResult = NoLoad /\ nLoads = 0
    /\ InitHist
    /\ models = [d \in Docs |-> IF d = "a" THEN OpenedModel(d) ELSE NoModel]
    /\ fileContent = [d \in Docs |-> IF d = "a" THEN NB(<<>>, 0) ELSE Undefined]
    /\ fileMtime = [d \in Docs |-> 0]
    /\ trustedSet = {}
    /\ now = 1

\* The results a test run and earlier updates can have left in the tree
InitResults ==
    /\ InitStorageIdle
    /\ InitJupyter
    /\ \E results \in [TestFunctions -> PassedValues],
          stale \in PassedValues, count \in {0, 2} :
           tests = [n \in TestNodes |->
                       IF n \in TestFunctions THEN TestItem(results[n], 0)
                       ELSE TestItem(stale, count)]
    /\ testQueue = <<>>
    /\ testStack = <<>>
    /\ updating = "idle"
    /\ updated = <<>>

NextResults ==
    \/ UpdateResultsStart
    \/ QueueStep
    \/ StackStep

SpecResults == InitResults /\ [][NextResults]_vars

(***************************************************************************)
(* Properties of updateResults.                                            *)
(***************************************************************************)
\* The test functions below a node
RECURSIVE FunctionsBelow(_)
FunctionsBelow(n) ==
    LET children == GetChildren(n)
    IN  UNION {IF GetTestType(children[i]) = "testFunction" THEN {children[i]}
               ELSE FunctionsBelow(children[i]) : i \in 1..Len(children)}

\* The nodes reachable from the root folders
RECURSIVE NodesBelow(_)
NodesBelow(n) ==
    {n} \cup UNION {NodesBelow(GetChildren(n)[i]) : i \in 1..Len(GetChildren(n))}

ReachableNodes == UNION {NodesBelow(RootTestFolders[i]) : i \in 1..Len(RootTestFolders)}

\* C37: when updateResults is done, every folder, file and suite reachable
\* from the root folders counts in functionsPassed, functionsFailed and
\* functionsDidNotRun the test functions below it whose passed is true, false
\* and unset; updateTestItem is applied to a node only after it was applied to
\* all its children; and no step changes a test function.
C37_CountsOfDescendants ==
    /\ [](updating = "done" =>
             \A n \in ReachableNodes \ TestFunctions :
                 /\ tests[n].functionsPassed =
                        Cardinality({f \in FunctionsBelow(n) : tests[f].passed = "true"})
                 /\ tests[n].functionsFailed =
                        Cardinality({f \in FunctionsBelow(n) : tests[f].passed = "false"})
                 /\ tests[n].functionsDidNotRun =
                        Cardinality({f \in FunctionsBelow(n) : tests[f].passed = Unset}))
    /\ [](\A i \in 1..Len(updated) :
             \A k \in 1..Len(GetChildren(updated[i])) :
                 \E j \in 1..(i - 1) : updated[j] = GetChildren(updated[i])[k])
    /\ [][\A f \in TestFunctions : tests'[f] = tests[f]]_vars

\* C37 witness: updateResults is done on a tree whose nodes held stale counts:
\* of the four test functions two passed, one failed and one did not run, and
\* the root folder counts them so
C37_Witness ==
    /\ updating = "done"
    /\ tests["fn1"].passed = "true" /\ tests["fn2"].passed = "false"
    /\ tests["fn3"].passed = Unset /\ tests["fn4"].passed = "true"
    /\ tests["root"].functionsPassed = 2
    /\ tests["root"].functionsFailed = 1
    /\ tests["root"].functionsDidNotRun = 1
    /\ tests["suite2"].functionsDidNotRun = 1
    /\ tests["emptyFolder"].functionsPassed = 0
    /\ Len(updated) = Cardinality(TestNodes)

\* C38: when updateResults is done, a folder, file or suite reachable from the
\* root folders has passed unset and status Unknown iff no test function below
\* it has a result; otherwise its status is Fail iff a test function below it
\* failed, Pass iff none did, and passed says whether none did.
C38_StatusOfDescendants ==
    updating = "done" =>
        \A n \in ReachableNodes \ TestFunctions :
            LET ran == {f \in FunctionsBelow(n) : tests[f].passed \in {"true", "false"}}
                failed == {f \in ran : tests[f].passed = "false"}
            IN  IF ran = {}
                THEN tests[n].passed = Unset /\ tests[n].status = "Unknown"
                ELSE /\ tests[n].passed = IF failed = {} THEN "true" ELSE "false"
                     /\ tests[n].status = IF failed = {} THEN "Pass" ELSE "Fail"

\* C38 witness: updateResults is done; the only failure is in the inner suite:
\* the suites, the file and the root folder above it have failed, the other
\* package has passed and the folder without tests is unknown
C38_Witness ==
    /\ updating = "done"
    /\ tests["fn1"].passed = "true" /\ tests["fn2"].passed = Unset
    /\ tests["fn3"].passed = "false" /\ tests["fn4"].passed = "true"
    /\ tests["suite2"].status = "Fail" /\ tests["suite1"].status = "Fail"
    /\ tests["file1"].status = "Fail" /\ tests["root"].status = "Fail"
    /\ tests["pkg"].status = "Pass"
    /\ tests["emptyFolder"].status = "Unknown" /\ tests["emptyFolder"].passed = Unset

(***************************************************************************)
(* Jupyter.onKernelChanged and its callers.                                *)
(***************************************************************************)
\* onKernelChanged that subscribes without disposing the previous handler
OnKernelChanged_NoDispose(k) ==
    LET sub == [id |-> Len(changes) + 1, kernel |-> k]
    IN  /\ subscriptions' = IF k # NoKernel THEN subscriptions \cup {sub}
                            ELSE subscriptions
        /\ onKernalStatusChangeHandler' = IF k # NoKernel THEN sub ELSE NoSubscription
        /\ kernel' = k
        /\ changes' = Append(changes, [subscribed |-> k # NoKernel, live |-> Cardinality(subscriptions)])

\* onKernelChanged(kernel): the handler, if set, is disposed and cleared; a
\* kernel is subscribed to; this.kernel is set. `changes` keeps, per call,
\* whether it subscribed and the number of subscriptions live after the disposal
OnKernelChanged(k) ==
    LET disposed == IF onKernalStatusChangeHandler # NoSubscription
                    THEN subscriptions \ {onKernalStatusChangeHandler}
                    ELSE subscriptions
        sub == [id |-> Len(changes) + 1, kernel |-> k]
    IN  /\ subscriptions' = IF k # NoKernel THEN disposed \cup {sub} ELSE disposed
        /\ onKernalStatusChangeHandler' = IF k # NoKernel THEN sub ELSE NoSubscription
        /\ kernel' = k
        /\ changes' = Append(changes, [subscribed |-> k # NoKernel, live |-> Cardinality(disposed)])

\* onEditorChanged(editor) for an editor of the language
OnEditorChanged(language) ==
    /\ Len(changes) < MaxChanges
    /\ LET k == runningKernels[language]
       IN  IF kernel # k THEN OnKernelChanged(k)
           ELSE UNCHANGED <<kernel, onKernalStatusChangeHandler, subscriptions, changes>>
    /\ UNCHANGED <<runningKernels, pendingKernels, storageVars, unitTestVars>>

\* The kernel manager's kernelChanged event: the user picked kernel k
KernelChangedEvent(k) ==
    /\ Len(changes) < MaxChanges
    /\ runningKernels' = [runningKernels EXCEPT ![k.language] = k]
    /\ IF kernel # k /\ kernel # NoKernel /\ kernel.language = k.language
       THEN OnKernelChanged(k)
       ELSE UNCHANGED <<kernel, onKernalStatusChangeHandler, subscriptions, changes>>
    /\ UNCHANGED <<pendingKernels, storageVars, unitTestVars>>

\* executeCode for a language the current kernel does not serve: the manager
\* starts kernel k, or none (k = NoKernel)
ExecuteCodeStart(language, k) ==
    /\ ~(kernel # NoKernel /\ kernel.language = language)
    /\ k = NoKernel \/ k.language = language
    /\ Cardinality(pendingKernels) < MaxPending
    /\ runningKernels' = IF k # NoKernel THEN [runningKernels EXCEPT ![language] = k]
                         ELSE runningKernels
    /\ pendingKernels' = pendingKernels \cup {[kernel |-> k, via |-> "start"]}
    /\ UNCHANGED <<kernel, onKernalStatusChangeHandler, subscriptions, changes,
                   storageVars, unitTestVars>>

\* The then-callback of startKernelFor
StartResolved(p) ==
    /\ p \in pendingKernels /\ p.via = "start"
    /\ Len(changes) < MaxChanges
    /\ pendingKernels' = pendingKernels \ {p}
    /\ IF p.kernel # NoKernel THEN OnKernelChanged(p.kernel)
       ELSE UNCHANGED <<kernel, onKernalStatusChangeHandler, subscriptions, changes>>
    /\ UNCHANGED <<runningKernels, storageVars, unitTestVars>>

\* The restart command: the manager restarts the kernel of the current
\* kernel's language and will resolve with kernel k, or with none
RestartCommand(k) ==
    /\ kernel # NoKernel
    /\ k = NoKernel \/ k.language = kernel.language
    /\ Cardinality(pendingKernels) < MaxPending
    /\ runningKernels' = [runningKernels EXCEPT ![kernel.language] = k]
    /\ pendingKernels' = pendingKernels \cup {[kernel |-> k, via |-> "restart"]}
    /\ UNCHANGED <<kernel, onKernalStatusChangeHandler, subscriptions, changes,
                   storageVars, unitTestVars>>

\* The then-callback of restartRunningKernelFor
RestartResolved(p) ==
    /\ p \in pendingKernels /\ p.via = "restart"
    /\ Len(changes) < MaxChanges
    /\ pendingKernels' = pendingKernels \ {p}
    /\ OnKernelChanged(p.kernel)
    /\ UNCHANGED <<runningKernels, storageVars, unitTestVars>>

\* The shut-down command: the kernel is shut down, then onKernelChanged()
ShutDownCommand(forgotten) ==
    /\ kernel # NoKernel
    /\ Len(changes) < MaxChanges
    /\ runningKernels' = IF forgotten /\ runningKernels[kernel.language] = kernel
                         THEN [runningKernels EXCEPT ![kernel.language] = NoKernel]
                         ELSE runningKernels
    /\ OnKernelChanged(NoKernel)
    /\ UNCHANGED <<pendingKernels, storageVars, unitTestVars>>

InitJupyterIdle ==
    /\ InitStorageIdle
    /\ InitUnitTests
    /\ InitJupyter

NextJupyter ==
    \/ \E l \in Languages : OnEditorChanged(l)
    \/ \E k \in Kernels : KernelChangedEvent(k)
    \/ \E l \in Languages, k \in Kernels \cup {NoKernel} : ExecuteCodeStart(l, k)
    \/ \E p \in pendingKernels : StartResolved(p)
    \/ \E k \in Kernels \cup {NoKernel} : RestartCommand(k)
    \/ \E p \in pendingKernels : RestartResolved(p)
    \/ \E forgotten \in BOOLEAN : ShutDownCommand(forgotten)

SpecJupyter == InitJupyterIdle /\ [][NextJupyter]_vars

\* C39: at most one status-change subscription is live; the live one is the
\* one held in onKernalStatusChangeHandler and belongs to the current kernel;
\* none is live when there is no current kernel; and at every onKernelChanged
\* call no subscription was live any more when the new one was created.
C39_OneLiveSubscription ==
    /\ Cardinality(subscriptions) <= 1
    /\ kernel = NoKernel => subscriptions = {} /\ onKernalStatusChangeHandler = NoSubscription
    /\ kernel # NoKernel =>
           /\ subscriptions = {onKernalStatusChangeHandler}
           /\ onKernalStatusChangeHandler.kernel = kernel
    /\ \A i \in 1..Len(changes) : changes[i].live = 0

\* C39 witness: onKernelChanged has run three times, with a kernel, with
\* another kernel of the same language and with a third one while a restart is
\* pending, and the current kernel holds the third subscription
C39_Witness ==
    /\ Len(changes) = 3
    /\ \A i \in 1..3 : changes[i].subscribed
    /\ kernel = [id |-> 1, language |-> "r"]
    /\ runningKernels["python"] = [id |-> 2, language |-> "python"]
    /\ pendingKernels # {}
    /\ subscriptions = {[id |-> 3, kernel |-> kernel]}

====
